---------------------------- MODULE Spec2Model ----------------------------
(***************************************************************************)
(* The acquisition-and-feature pipeline of the sensory-translation         *)
(* visualizer: the serial reader thread (CommunicationManager._read_loop), *)
(* the two bounded buffers and their single mutex (AudioProcessor), the    *)
(* feature extraction worker (AudioProcessor._processing_loop) and the     *)
(* application thread that starts the pipeline, polls it and shuts it      *)
(* down (SensoryMusicVisualizer.run).                                      *)
(***************************************************************************)
EXTENDS Integers, Sequences, FiniteSets, TLC

(***************************************************************************)
(* Bounds of the model.                                                    *)
(***************************************************************************)
\* AudioProcessor(buffer_size=...): capacity of both deques.
BufferSize == 2
\* AudioProcessor(analysis_window=...): length of the history window.
AnalysisWindow == 1
\* Number of frames the device sends before it falls silent.
MaxFrames == 3
\* Number of snapshots after which the worker is no longer scheduled.
MaxCycles == 3
\* The time at which the clock of the timed specification stops.
MaxTime == 8
\* Number of comma-separated parts of the lines given to from_string.
MaxParts == 2
\* Number of packets counted (received or lost) after which the device
\* falls silent.
MaxPackets == 2
\* The time at which the clock of the reader's specification stops.
MaxReaderTime == 26
\* Number of reader threads start_reading may spawn.
MaxReaders == 2
\* Number of worker threads start() may spawn.
MaxWorkers == 2
\* Number of cycles of the rhythm analysis.
MaxTempoCalls == 5
\* Number of records analyzed after the steady signal.
MaxSamples == 5

(***************************************************************************)
(* Durations, in ticks of 5 ms.                                            *)
(***************************************************************************)
\* time.sleep(max(0, 0.01 - processing_time)): the 0.01 s budget of a cycle.
CycleBudget == 2
\* except Exception: time.sleep(0.1)
ErrorBackoff == 20
\* if time_diff > 0.1: more than 100 ms without a packet
GapThreshold == 20
\* int(time_diff / 0.02): the 20 ms between two packets at 50 Hz
PacketPeriod == 4

\* _test_communication: while time.time() - start_time < 3.0
TestWindow == 600
\* _test_communication: if test_packets >= 5
MinTestPackets == 5
\* _test_communication: time.sleep(0.1)
TestNap == 20

\* calculate_tempo: intervals > 0.3
MinInterval == 60
\* calculate_tempo: intervals < 3.0
MaxInterval == 600
\* calculate_tempo: 60.0 / avg_interval, the ticks of a minute
Minute == 12000
\* self.beat_history = deque(maxlen=100)
BeatHistoryLen == 100
\* self.tempo_history = deque(maxlen=20)
TempoHistoryLen == 20

\* EnvelopeAnalyzer.analyze: if len(history) >= 10, history[-10:]
EnvelopeWindow == 10

\* _read_loop: max_consecutive_errors = 10
max_consecutive_errors == 10

VARIABLES
    raw_buffer,         \* AudioProcessor.raw_buffer (deque, maxlen=buffer_size)
    processed_buffer,   \* AudioProcessor.processed_buffer (deque, maxlen=buffer_size)
    lock,               \* AudioProcessor.lock: the thread holding it, or Free
    is_running,         \* AudioProcessor.is_running
    samples_processed,  \* AudioProcessor.samples_processed
    raw_data,           \* _processing_loop local: the record being processed
    recent_data,        \* _processing_loop local: the history window
    processed_data,     \* _processing_loop local: the snapshot computed
    is_connected,       \* CommunicationManager.is_connected
    is_reading,         \* CommunicationManager.is_reading
    stop_event,         \* CommunicationManager.stop_event
    serial_connection,  \* CommunicationManager.serial_connection is not None
    audio_data,         \* _read_loop local: the record parsed from the line
    pc,                 \* the statement each thread is at
    pushed,             \* history: every record add_data appended, in order
    now,                \* time.time(), in ticks
    start_time,         \* _processing_loop local: time.time() at line 128,
                        \* -1 while unbound
    processing_time,    \* _processing_loop local: the measured cycle cost,
                        \* -1 while unbound
    wake_at,            \* the time at which the worker's time.sleep returns
    push_times,         \* history: the time of every push to the feature buffer
    result,             \* what the consumer's last getter call returned
    data_string,        \* from_string's argument: the line, as tokens
    parsed,             \* what from_string returned for it
    line,               \* _read_loop local: the line read, as tokens
    consecutive_errors, \* _read_loop local
    bytes_received,     \* CommunicationManager.bytes_received
    packets_received,   \* CommunicationManager.packets_received
    packets_lost,       \* CommunicationManager.packets_lost
    last_packet_time,   \* CommunicationManager.last_packet_time
    returned,           \* what the manager's last call returned
    test_packets,       \* _test_communication local
    read_threads,       \* the reader threads start_reading has spawned
    process_threads,    \* the worker threads start() has spawned
    beat_history,       \* AudioProcessor.beat_history
    tempo_history,      \* TempoTracker.tempo_history
    tempo_bpm,          \* what calculate_tempo returned last
    amplitude_history,  \* the records handed to EnvelopeAnalyzer.analyze
    envelope_state,     \* EnvelopeAnalyzer.envelope_state
    peak_amplitude,     \* EnvelopeAnalyzer.peak_amplitude
    attack_start,       \* EnvelopeAnalyzer.attack_start
    release_start,      \* EnvelopeAnalyzer.release_start
    attack_time,        \* what analyze reported last as attack_time
    freqs,              \* get_dominant_frequencies argument
    magnitudes,         \* get_dominant_frequencies argument
    threshold,          \* get_dominant_frequencies argument
    consecutive_silence_blocks, \* main.py global
    last_audio_energy,  \* main.py global
    last_silence_state, \* real_time_visualization local
    sent                \* the SILENCE frames written to the serial port

vars == <<raw_buffer, processed_buffer, lock, is_running, samples_processed,
          raw_data, recent_data, processed_data, is_connected, is_reading,
          stop_event, serial_connection, audio_data, pc, pushed,
          now, start_time, processing_time, wake_at, push_times, result,
          data_string, parsed, line, consecutive_errors, bytes_received,
          packets_received, packets_lost, last_packet_time, returned,
          test_packets, read_threads, process_threads, beat_history,
          tempo_history, tempo_bpm, amplitude_history, envelope_state,
          peak_amplitude, attack_start, release_start, attack_time, freqs,
          magnitudes, threshold, consecutive_silence_blocks,
          last_audio_energy, last_silence_state, sent>>

Main == "main"
Reader == "reader"
Engine == "engine"
Threads == {Main, Reader, Engine}

Free == "free"
None == [none |-> TRUE]

Min(a, b) == IF a < b THEN a ELSE b
Max(a, b) == IF a > b THEN a ELSE b

(***************************************************************************)
(* Python containers.                                                      *)
(***************************************************************************)
\* s[-1]
Last(s) == s[Len(s)]

\* list(s)[-n:] for n >= 0.  Python reads -0 as 0, so n = 0 keeps the list.
TailSlice(s, n) ==
    IF n = 0 \/ n >= Len(s) THEN s
    ELSE SubSeq(s, Len(s) - n + 1, Len(s))

\* A deque that pushes at the wrong end: the new item becomes the oldest.
DequeAppendLeft(d, x, maxlen) ==
    IF maxlen = 0 THEN <<>>
    ELSE IF Len(d) >= maxlen THEN <<x>> \o SubSeq(d, 1, maxlen - 1)
    ELSE <<x>> \o d

\* A deque without its maxlen: nothing is evicted.
DequeAppendUnbounded(d, x, maxlen) == Append(d, x)

\* deque(maxlen=maxlen).append(x): the oldest item is evicted on overflow.
DequeAppend(d, x, maxlen) ==
    IF maxlen = 0 THEN <<>>
    ELSE IF Len(d) >= maxlen THEN Append(SubSeq(d, Len(d) - maxlen + 2, Len(d)), x)
    ELSE Append(d, x)

(***************************************************************************)
(* Records.  frame numbers a record by its arrival; it stands for the      *)
(* identity of the RawAudioData object.                                    *)
(***************************************************************************)
RawAudioData(frame, timestamp) == [frame |-> frame, timestamp |-> timestamp]

\* The snapshot copies the current record's fields; window is the length of
\* the history the analyzers were given.
ProcessAudioData(current, history) ==
    [frame |-> current.frame, timestamp |-> current.timestamp,
     window |-> Len(history)]

(***************************************************************************)
(* The mutex.                                                              *)
(***************************************************************************)
\* A critical section that forgets to release.
ReleaseLeak(t) == lock' = lock

\* __exit__ of "with self.lock".
Release(t) == lock' = Free

\* __enter__ of "with self.lock": blocks until the lock is free.
Acquire(t) == lock = Free /\ lock' = t

\* Thread t moves to statement next.
Goto(t, next) == pc' = [pc EXCEPT ![t] = next]

(***************************************************************************)
(* Initial state: the objects as constructed by SensoryMusicVisualizer.    *)
(***************************************************************************)
Pending == [pending |-> TRUE]

\* The pipeline's objects as constructed.
PipelineInit ==
    /\ raw_buffer = <<>>
    /\ processed_buffer = <<>>
    /\ lock = Free
    /\ is_running = FALSE
    /\ samples_processed = 0
    /\ raw_data = None
    /\ recent_data = <<>>
    /\ processed_data = None
    /\ is_connected = FALSE
    /\ is_reading = FALSE
    /\ stop_event = FALSE
    /\ serial_connection = FALSE
    /\ audio_data = None
    /\ pc = [t \in Threads |-> IF t = Main THEN "connect" ELSE "unstarted"]
    /\ pushed = <<>>

\* The clock at its origin, the worker's locals unbound.
TimeInit ==
    /\ now = 0
    /\ start_time = -1
    /\ processing_time = -1
    /\ wake_at = 0
    /\ push_times = <<>>

\* No getter has been called.
GetterInit == result = None

\* from_string has not been called.
CodecInit ==
    /\ data_string = <<>>
    /\ parsed = Pending

\* CommunicationManager.__init__: the statistics at zero; _read_loop's
\* locals as it sets them on entry.
StatisticsInit ==
    /\ line = <<>>
    /\ consecutive_errors = 0
    /\ bytes_received = 0
    /\ packets_received = 0
    /\ packets_lost = 0
    /\ last_packet_time = 0

\* The call that returned last and the value it returned.
Returned(call, value) == [call |-> call, value |-> value]

\* The manager as constructed: no call has returned, no thread was spawned.
LifecycleInit ==
    /\ returned = Returned("__init__", "None")
    /\ test_packets = 0
    /\ read_threads = <<>>
    /\ process_threads = <<>>

\* AudioProcessor.__init__, TempoTracker.__init__, EnvelopeAnalyzer.__init__
AnalyzerInit ==
    /\ beat_history = <<>>
    /\ tempo_history = <<>>
    /\ tempo_bpm = [num |-> 0, den |-> 1]
    /\ amplitude_history = <<>>
    /\ envelope_state = "release"
    /\ peak_amplitude = [num |-> 0, den |-> 1]
    /\ attack_start = 0
    /\ release_start = 0

\* analyze has reported nothing.
ReportInit == attack_time = 0

\* The alternate topology (main.py) as loaded: no call of
\* get_dominant_frequencies, the globals of the silence detection at their
\* initial values, nothing written to the serial port.
AlternateInit ==
    /\ freqs = <<>>
    /\ magnitudes = <<>>
    /\ threshold = [num |-> 0, den |-> 1]
    /\ consecutive_silence_blocks = 0
    /\ last_audio_energy = 0
    /\ last_silence_state = FALSE
    /\ sent = <<>>

Init ==
    /\ PipelineInit
    /\ TimeInit
    /\ GetterInit
    /\ CodecInit
    /\ StatisticsInit
    /\ LifecycleInit
    /\ AnalyzerInit
    /\ ReportInit
    /\ AlternateInit

EngineVars == <<is_running, samples_processed, raw_data, recent_data, processed_data>>
ReaderVars == <<is_connected, is_reading, stop_event, serial_connection, audio_data>>
BufferVars == <<raw_buffer, processed_buffer, pushed>>
TimeVars == <<now, start_time, processing_time, wake_at, push_times>>

GetterVars == <<result>>
CodecVars == <<data_string, parsed>>
StatisticsVars == <<line, consecutive_errors, bytes_received, packets_received,
                    packets_lost, last_packet_time>>

LifecycleVars == <<returned, test_packets, read_threads, process_threads>>
AnalyzerVars == <<beat_history, tempo_history, tempo_bpm, amplitude_history,
                  envelope_state, peak_amplitude, attack_start, release_start>>
ReportVars == <<attack_time>>
AlternateVars == <<freqs, magnitudes, threshold, consecutive_silence_blocks,
                   last_audio_energy, last_silence_state, sent>>

\* What the pipeline's actions below leave alone: they abstract from time,
\* from the values the getters return, from the text of the lines, from the
\* reader's statistics, from the manager's calls and from the analyzers.
DetailVars == <<TimeVars, GetterVars, CodecVars, StatisticsVars, LifecycleVars,
                AnalyzerVars, ReportVars, AlternateVars>>


(***************************************************************************)
(* AudioProcessor: the buffers' operations.                                *)
(***************************************************************************)
\* len(self.raw_buffer) < 1: one record is taken to be enough.
TooFewRawOffByOne(buf) == Len(buf) < 1

\* len(self.raw_buffer) < 2
TooFewRaw(buf) == Len(buf) < 2

\* self.raw_buffer.append(raw_data)
AppendRaw(buf, x) == DequeAppend(buf, x, BufferSize)

\* The snapshot is pushed at the front of the feature buffer.
PublishSnapshotLeft(buf, x) == DequeAppendLeft(buf, x, BufferSize)

\* buffer_usage: len(self.processed_buffer) / self.buffer_size, as a fraction.
BufferUsage(buf) == [num |-> Len(buf), den |-> BufferSize]

\* self.processed_buffer.append(processed_data)
PublishSnapshot(buf, x) == DequeAppend(buf, x, BufferSize)

\* list(self.raw_buffer)[-min(len(self.raw_buffer), self.analysis_window):]
HistoryWindow(buf) == TailSlice(buf, Min(Len(buf), AnalysisWindow))

(***************************************************************************)
(* AudioProcessor._processing_loop, one action per statement.              *)
(***************************************************************************)
\* while True: the flag is never read.
EngineLoopTopIgnoresFlag ==
    /\ pc[Engine] = "top"
    /\ is_running => samples_processed < MaxCycles
    /\ Goto(Engine, "check")
    /\ UNCHANGED <<DetailVars, BufferVars, lock, EngineVars, ReaderVars>>

\* while self.is_running: the flag is read at the top of every iteration.
EngineLoopTop ==
    /\ pc[Engine] = "top"
    /\ is_running => samples_processed < MaxCycles
    /\ Goto(Engine, IF is_running THEN "check" ELSE "done")
    /\ UNCHANGED <<DetailVars, BufferVars, lock, EngineVars, ReaderVars>>

\* if len(self.raw_buffer) < 2: the length is read outside the lock.
EngineCheck ==
    /\ pc[Engine] = "check"
    /\ Goto(Engine, IF TooFewRaw(raw_buffer) THEN "idle" ELSE "acquire_raw")
    /\ UNCHANGED <<DetailVars, BufferVars, lock, EngineVars, ReaderVars>>

\* time.sleep(0.001); continue
EngineIdle ==
    /\ pc[Engine] = "idle"
    /\ Goto(Engine, "top")
    /\ UNCHANGED <<DetailVars, BufferVars, lock, EngineVars, ReaderVars>>

\* with self.lock: (first block)
EngineAcquireRaw ==
    /\ pc[Engine] = "acquire_raw"
    /\ Acquire(Engine)
    /\ Goto(Engine, "read_raw")
    /\ UNCHANGED <<DetailVars, BufferVars, EngineVars, ReaderVars>>

\* The worker drains the buffer: the record it takes is removed.
EngineReadRawDrain ==
    /\ pc[Engine] = "read_raw"
    /\ raw_data' = Last(raw_buffer)
    /\ recent_data' = HistoryWindow(raw_buffer)
    /\ raw_buffer' = SubSeq(raw_buffer, 1, Len(raw_buffer) - 1)
    /\ Release(Engine)
    /\ Goto(Engine, "compute")
    /\ UNCHANGED <<DetailVars, processed_buffer, pushed, is_running,
                   samples_processed, processed_data, ReaderVars>>

\* The first block is not left before the snapshot is computed: the lock
\* stays held.
EngineReadRawKeepsLock ==
    /\ pc[Engine] = "read_raw"
    /\ raw_data' = Last(raw_buffer)
    /\ recent_data' = HistoryWindow(raw_buffer)
    /\ Goto(Engine, "compute")
    /\ UNCHANGED <<DetailVars, BufferVars, lock, is_running, samples_processed,
                   processed_data, ReaderVars>>

\* raw_data = self.raw_buffer[-1]; recent_data = list(self.raw_buffer)[-...:]
\* An empty buffer raises IndexError, which leaves the block (releasing the
\* lock) for the handler.
EngineReadRaw ==
    /\ pc[Engine] = "read_raw"
    /\ IF raw_buffer = <<>>
       THEN /\ Goto(Engine, "error_sleep")
            /\ UNCHANGED <<raw_data, recent_data>>
       ELSE /\ raw_data' = Last(raw_buffer)
            /\ recent_data' = HistoryWindow(raw_buffer)
            /\ Goto(Engine, "compute")
    /\ Release(Engine)
    /\ UNCHANGED <<DetailVars, BufferVars, is_running, samples_processed, processed_data,
                   ReaderVars>>

\* processed_data = self._process_audio_data(raw_data, recent_data), which
\* returns the snapshot or raises.
EngineCompute ==
    /\ pc[Engine] = "compute"
    /\ \/ /\ processed_data' = ProcessAudioData(raw_data, recent_data)
          /\ Goto(Engine, "acquire_processed")
       \/ /\ processed_data' = None
          /\ Goto(Engine, "error_sleep")
    /\ raw_data' = None
    /\ recent_data' = <<>>
    /\ UNCHANGED <<DetailVars, BufferVars, lock, is_running, samples_processed,
                   ReaderVars>>

\* with self.lock: (second block)
EngineAcquireProcessed ==
    /\ pc[Engine] = "acquire_processed"
    /\ Acquire(Engine)
    /\ Goto(Engine, "publish")
    /\ UNCHANGED <<DetailVars, BufferVars, EngineVars, ReaderVars>>

\* self.processed_buffer.append(processed_data)
EnginePublish ==
    /\ pc[Engine] = "publish"
    /\ processed_buffer' = PublishSnapshot(processed_buffer, processed_data)
    /\ processed_data' = None
    /\ Release(Engine)
    /\ Goto(Engine, "statistics")
    /\ UNCHANGED <<DetailVars, raw_buffer, pushed, is_running, samples_processed,
                   raw_data, recent_data, ReaderVars>>

\* self.samples_processed += 1 (and the running average)
EngineStatistics ==
    /\ pc[Engine] = "statistics"
    /\ samples_processed' = samples_processed + 1
    /\ Goto(Engine, "sleep")
    /\ UNCHANGED <<DetailVars, BufferVars, lock, is_running, raw_data, recent_data,
                   processed_data, ReaderVars>>

\* time.sleep(max(0, 0.01 - processing_time))
EngineSleep ==
    /\ pc[Engine] = "sleep"
    /\ Goto(Engine, "top")
    /\ UNCHANGED <<DetailVars, BufferVars, lock, EngineVars, ReaderVars>>

\* An except clause that leaves the loop after logging.
EngineErrorSleepExits ==
    /\ pc[Engine] = "error_sleep"
    /\ Goto(Engine, "done")
    /\ UNCHANGED <<DetailVars, BufferVars, lock, EngineVars, ReaderVars>>

\* except Exception: log; time.sleep(0.1)
EngineErrorSleep ==
    /\ pc[Engine] = "error_sleep"
    /\ Goto(Engine, "top")
    /\ UNCHANGED <<DetailVars, BufferVars, lock, EngineVars, ReaderVars>>

EngineAcquire == EngineAcquireRaw \/ EngineAcquireProcessed

EngineStep ==
    \/ EngineLoopTop
    \/ EngineCheck
    \/ EngineIdle
    \/ EngineReadRaw
    \/ EngineCompute
    \/ EnginePublish
    \/ EngineStatistics
    \/ EngineSleep
    \/ EngineErrorSleep


(***************************************************************************)
(* CommunicationManager._read_loop and the sink it feeds,                  *)
(* AudioProcessor.add_data.                                                *)
(***************************************************************************)
\* time.time() at parse: not before the time stamped on the previous record.
Timestamps == IF pushed = <<>> THEN {1}
              ELSE {Last(pushed).timestamp, Last(pushed).timestamp + 1}

\* while not self.stop_event.is_set() and self.is_reading:
ReaderLoopTop ==
    /\ pc[Reader] = "top"
    /\ Goto(Reader, IF ~stop_event /\ is_reading THEN "poll" ELSE "done")
    /\ UNCHANGED <<DetailVars, BufferVars, lock, EngineVars, ReaderVars>>

\* if self.serial_connection and self.serial_connection.in_waiting > 0:
\* readline, from_string, statistics; else: time.sleep(0.001).  A line that
\* parses goes to the sink; one that does not is counted and dropped; a
\* transport error goes to the handlers, which sleep or, after repeated
\* errors, break out of the loop (the error count is not modelled here: the
\* loop may break at any error).
ReaderPoll ==
    /\ pc[Reader] = "poll"
    /\ \/ /\ Goto(Reader, "sleep")
          /\ UNCHANGED audio_data
       \/ /\ serial_connection
          /\ Len(pushed) < MaxFrames
          /\ \E ts \in Timestamps :
                audio_data' = RawAudioData(Len(pushed) + 1, ts)
          /\ Goto(Reader, "add_data")
       \/ /\ serial_connection
          /\ Goto(Reader, "top")
          /\ UNCHANGED audio_data
       \/ /\ Goto(Reader, "sleep")
          /\ UNCHANGED audio_data
       \/ /\ Goto(Reader, "done")
          /\ UNCHANGED audio_data
    /\ UNCHANGED <<DetailVars, BufferVars, lock, EngineVars, is_connected, is_reading,
                   stop_event, serial_connection>>

\* add_data: with self.lock:
ReaderAcquire ==
    /\ pc[Reader] = "add_data"
    /\ Acquire(Reader)
    /\ Goto(Reader, "append")
    /\ UNCHANGED <<DetailVars, BufferVars, EngineVars, ReaderVars>>

\* add_data: self.raw_buffer.append(raw_data)
ReaderAppend ==
    /\ pc[Reader] = "append"
    /\ raw_buffer' = AppendRaw(raw_buffer, audio_data)
    /\ pushed' = Append(pushed, audio_data)
    /\ audio_data' = None
    /\ Release(Reader)
    /\ Goto(Reader, "top")
    /\ UNCHANGED <<DetailVars, processed_buffer, EngineVars, is_connected,
                   is_reading, stop_event, serial_connection>>

\* time.sleep(0.001) with no data, time.sleep(0.1) after an error
ReaderSleep ==
    /\ pc[Reader] = "sleep"
    /\ Goto(Reader, "top")
    /\ UNCHANGED <<DetailVars, BufferVars, lock, EngineVars, ReaderVars>>

ReaderStep ==
    \/ ReaderLoopTop
    \/ ReaderPoll
    \/ ReaderAppend
    \/ ReaderSleep


(***************************************************************************)
(* The application thread: SensoryMusicVisualizer.run, which initializes   *)
(* the system, polls the pipeline from its render loop and cleans up.      *)
(***************************************************************************)
ThreadAlive(t) == pc[t] \notin {"unstarted", "done"}

\* The pipeline is started whatever connect() returned.
MainConnectStartsAnyway ==
    /\ pc[Main] = "connect"
    /\ \/ /\ UNCHANGED <<is_connected, serial_connection>>
          /\ returned' = Returned("connect", "False")
          /\ Goto(Main, "start")
       \/ /\ serial_connection' = TRUE
          /\ is_connected' = TRUE
          /\ returned' = Returned("connect", "False")
          /\ Goto(Main, "start")
       \/ /\ serial_connection' = TRUE
          /\ is_connected' = TRUE
          /\ returned' = Returned("connect", "True")
          /\ Goto(Main, "start")
    /\ UNCHANGED <<TimeVars, GetterVars, CodecVars, StatisticsVars,
                   AnalyzerVars, ReportVars, AlternateVars, test_packets, read_threads, process_threads,
                   BufferVars, lock, EngineVars, is_reading, stop_event,
                   audio_data>>

\* initialize_system: self.communication.connect().  The port does not open
\* (or none is found); or it opens, is_connected is set and the self-test
\* fails; or the self-test succeeds.  On failure run() goes to cleanup.
MainConnect ==
    /\ pc[Main] = "connect"
    /\ \/ /\ UNCHANGED <<is_connected, serial_connection>>
          /\ returned' = Returned("connect", "False")
          /\ Goto(Main, "stop")
       \/ /\ serial_connection' = TRUE
          /\ is_connected' = TRUE
          /\ returned' = Returned("connect", "False")
          /\ Goto(Main, "stop")
       \/ /\ serial_connection' = TRUE
          /\ is_connected' = TRUE
          /\ returned' = Returned("connect", "True")
          /\ Goto(Main, "start")
    /\ UNCHANGED <<TimeVars, GetterVars, CodecVars, StatisticsVars,
                   AnalyzerVars, ReportVars, AlternateVars, test_packets, read_threads, process_threads,
                   BufferVars, lock, EngineVars, is_reading, stop_event,
                   audio_data>>

\* AudioProcessor.start(): if self.is_running: return; else the flag is set
\* and the worker thread is started.
MainStart ==
    /\ pc[Main] = "start"
    /\ IF is_running
       THEN /\ Goto(Main, "start_reading")
            /\ UNCHANGED is_running
       ELSE /\ is_running' = TRUE
            /\ pc' = [pc EXCEPT ![Main] = "start_reading", ![Engine] = "top"]
    /\ UNCHANGED <<DetailVars, BufferVars, lock, samples_processed, raw_data, recent_data,
                   processed_data, ReaderVars>>

\* CommunicationManager.start_reading(self.audio_processor.add_data)
MainStartReading ==
    /\ pc[Main] = "start_reading"
    /\ IF ~is_connected
       THEN /\ Goto(Main, "loop")
            /\ UNCHANGED <<is_reading, stop_event>>
       ELSE /\ is_reading' = TRUE
            /\ stop_event' = FALSE
            /\ pc' = [pc EXCEPT ![Main] = "loop", ![Reader] = "top"]
    /\ UNCHANGED <<DetailVars, BufferVars, lock, EngineVars, is_connected,
                   serial_connection, audio_data>>

\* main_loop: each frame the consumer calls a getter that takes the lock
\* (get_current_analysis, get_recent_analysis, buffer_usage) or
\* get_statistics, until the loop ends (quit event, or an exception caught
\* by run()).
MainLoop ==
    /\ pc[Main] = "loop"
    /\ \/ Goto(Main, "getter")
       \/ Goto(Main, "statistics")
       \/ Goto(Main, "stop")
    /\ UNCHANGED <<DetailVars, BufferVars, lock, EngineVars, ReaderVars>>

\* get_current_analysis, get_recent_analysis, buffer_usage: with self.lock:
MainAcquire ==
    /\ pc[Main] = "getter"
    /\ Acquire(Main)
    /\ Goto(Main, "read_processed")
    /\ UNCHANGED <<DetailVars, BufferVars, EngineVars, ReaderVars>>

\* The getter's body: it reads self.processed_buffer and returns.
MainReadProcessed ==
    /\ pc[Main] = "read_processed"
    /\ Release(Main)
    /\ Goto(Main, "loop")
    /\ UNCHANGED <<DetailVars, BufferVars, EngineVars, ReaderVars>>

\* get_statistics: len(self.processed_buffer), read without the lock.
MainStatistics ==
    /\ pc[Main] = "statistics"
    /\ Goto(Main, "loop")
    /\ UNCHANGED <<DetailVars, BufferVars, lock, EngineVars, ReaderVars>>

\* cleanup: AudioProcessor.stop(): self.is_running = False, then the join
\* if a worker thread was ever started.
MainStop ==
    /\ pc[Main] = "stop"
    /\ is_running' = FALSE
    /\ Goto(Main, IF pc[Engine] # "unstarted" THEN "join_engine" ELSE "disconnect")
    /\ UNCHANGED <<DetailVars, BufferVars, lock, samples_processed, raw_data, recent_data,
                   processed_data, ReaderVars>>

\* self.process_thread.join(timeout=2.0): returns when the worker has
\* exited, or when the timeout expires with the worker still alive.
MainJoinEngine ==
    /\ pc[Main] = "join_engine"
    /\ \/ pc[Engine] = "done"
       \/ pc[Engine] # "done"
    /\ Goto(Main, "disconnect")
    /\ UNCHANGED <<DetailVars, BufferVars, lock, EngineVars, ReaderVars>>

\* cleanup: CommunicationManager.disconnect(), up to the join.
MainDisconnect ==
    /\ pc[Main] = "disconnect"
    /\ IF is_reading
       THEN /\ is_reading' = FALSE
            /\ stop_event' = TRUE
            /\ Goto(Main, IF ThreadAlive(Reader) THEN "join_reader" ELSE "close")
       ELSE /\ UNCHANGED <<is_reading, stop_event>>
            /\ Goto(Main, "close")
    /\ UNCHANGED <<DetailVars, BufferVars, lock, EngineVars, is_connected,
                   serial_connection, audio_data>>

\* self.read_thread.join(timeout=2.0)
MainJoinReader ==
    /\ pc[Main] = "join_reader"
    /\ \/ pc[Reader] = "done"
       \/ pc[Reader] # "done"
    /\ Goto(Main, "close")
    /\ UNCHANGED <<DetailVars, BufferVars, lock, EngineVars, ReaderVars>>

\* disconnect(), after the join: the link is closed and forgotten.
MainClose ==
    /\ pc[Main] = "close"
    /\ serial_connection' = FALSE
    /\ is_connected' = FALSE
    /\ Goto(Main, "done")
    /\ UNCHANGED <<DetailVars, BufferVars, lock, EngineVars, is_reading, stop_event,
                   audio_data>>

MainStep ==
    \/ MainConnect
    \/ MainStart
    \/ MainStartReading
    \/ MainReadProcessed
    \/ MainStatistics
    \/ MainStop
    \/ MainJoinEngine
    \/ MainDisconnect
    \/ MainJoinReader
    \/ MainClose

(***************************************************************************)
(* The specifications.                                                     *)
(***************************************************************************)
Next ==
    \/ EngineStep
    \/ EngineAcquire
    \/ ReaderStep
    \/ ReaderAcquire
    \/ MainStep
    \/ MainLoop
    \/ MainAcquire

Spec == Init /\ [][Next]_vars

\* Every thread that can take a step eventually takes one (the scheduler
\* runs every runnable thread), and a thread blocked on the lock gets it
\* once it is released often enough.  The consumer is not obliged to poll.
Fairness ==
    /\ WF_vars(EngineStep)
    /\ SF_vars(EngineAcquire)
    /\ WF_vars(ReaderStep)
    /\ SF_vars(ReaderAcquire)
    /\ WF_vars(MainStep)
    /\ SF_vars(MainAcquire)

FairSpec == Spec /\ Fairness


(***************************************************************************)
(* Vocabulary of the properties.                                           *)
(***************************************************************************)
\* The last n items of s, in order.
LastItems(s, n) == [i \in 1..n |-> s[Len(s) - n + i]]

SortedByTimestamp(s) ==
    \A i, j \in 1..Len(s) : i < j => s[i].timestamp <= s[j].timestamp

\* The fraction q lies in [0, 1].
InUnitInterval(q) == q.den > 0 /\ 0 <= q.num /\ q.num <= q.den

\* Thread t is blocked in (or about to enter) "with self.lock".
Waiting(t) ==
    \/ t = Engine /\ pc[t] \in {"acquire_raw", "acquire_processed"}
    \/ t = Reader /\ pc[t] = "add_data"
    \/ t = Main /\ pc[t] = "getter"

\* Thread t is at a statement inside a "with self.lock" block.
InCriticalSection(t) ==
    \/ t = Engine /\ pc[t] \in {"read_raw", "publish"}
    \/ t = Reader /\ pc[t] = "append"
    \/ t = Main /\ pc[t] = "read_processed"

\* Thread t is at a statement that reads or mutates one of the two buffers:
\* the worker's length check, window read and publish; add_data's append;
\* the getters' reads and get_statistics' read.
AccessesBuffer(t) ==
    \/ t = Engine /\ pc[t] \in {"check", "read_raw", "publish"}
    \/ t = Reader /\ pc[t] = "append"
    \/ t = Main /\ pc[t] \in {"read_processed", "statistics"}

\* Thread t sleeps, waits in a join, does serial I/O or computes a snapshot.
SleepsOrWorks(t) ==
    \/ t = Engine /\ pc[t] \in {"idle", "sleep", "error_sleep", "compute"}
    \/ t = Reader /\ pc[t] \in {"poll", "sleep"}
    \/ t = Main /\ pc[t] \in {"connect", "join_engine", "join_reader", "close"}

(***************************************************************************)
(* C1.  Neither buffer ever holds more than buffer_size items, whatever    *)
(* the interleaving of add_data and worker cycles, so the fill ratio       *)
(* len(processed_buffer) / buffer_size lies in [0, 1].                     *)
(***************************************************************************)
C1_BuffersBounded ==
    /\ Len(raw_buffer) <= BufferSize
    /\ Len(processed_buffer) <= BufferSize
    /\ InUnitInterval(BufferUsage(processed_buffer))

\* Both buffers are full and both have evicted.
C1_Witness ==
    /\ Len(pushed) > BufferSize
    /\ Len(raw_buffer) = BufferSize
    /\ samples_processed > BufferSize
    /\ Len(processed_buffer) = BufferSize

(***************************************************************************)
(* C2.  After N pushes a buffer of capacity K holds exactly the last       *)
(* min(N, K) pushed items in push order: the raw buffer is that suffix of  *)
(* everything add_data appended, and every push to the feature buffer      *)
(* leaves the last min(len + 1, K) items of the old contents followed by   *)
(* the new snapshot.                                                       *)
(***************************************************************************)
C2_RetainsMostRecent ==
    /\ [](raw_buffer = LastItems(pushed, Min(Len(pushed), BufferSize)))
    /\ [][processed_buffer' # processed_buffer =>
            LET all == Append(processed_buffer, processed_data)
            IN  processed_buffer' = LastItems(all, Min(Len(all), BufferSize))]_vars

\* K + 1 records were pushed: the first is gone, the others are in order.
C2_Witness ==
    /\ Len(pushed) = BufferSize + 1
    /\ Len(raw_buffer) = BufferSize
    /\ raw_buffer[1].frame = 2
    /\ raw_buffer[BufferSize].frame = BufferSize + 1

C4_AccessUnderLock ==
    \A t \in Threads : AccessesBuffer(t) => lock = t

(***************************************************************************)
(* C5.  The mutex is never held by a thread that sleeps, waits, does       *)
(* serial I/O or computes a snapshot, also after the worker's cycle        *)
(* raised: it is held only inside the critical sections.                   *)
(***************************************************************************)
C5_LockShortHeld ==
    \A t \in Threads :
        /\ SleepsOrWorks(t) => lock # t
        /\ lock = t => InCriticalSection(t)

\* The worker sleeps in its exception handler while the reader holds the
\* lock and the consumer waits for it.
C5_Witness ==
    /\ pc[Engine] = "error_sleep"
    /\ lock = Reader
    /\ Waiting(Main)

(***************************************************************************)
(* C6.  Cancellation: a worker that finds its stop flag set at the top of  *)
(* its loop leaves the loop; once stop() has cleared is_running the engine *)
(* worker eventually exits, and once disconnect() has set the stop event   *)
(* the reader eventually exits; the joins of stop() and disconnect()       *)
(* return even when the worker has not exited.                             *)
(***************************************************************************)
C6_Cancellation ==
    /\ [][(pc[Engine] = "top" /\ ~is_running /\ pc'[Engine] # "top")
            => pc'[Engine] = "done"]_vars
    /\ [][(pc[Reader] = "top" /\ (stop_event \/ ~is_reading) /\ pc'[Reader] # "top")
            => pc'[Reader] = "done"]_vars
    /\ (~is_running /\ ThreadAlive(Engine)) ~> (pc[Engine] = "done")
    /\ (stop_event /\ ThreadAlive(Reader)) ~> (pc[Reader] = "done")
    /\ (pc[Main] = "join_engine") ~> (pc[Main] = "disconnect")
    /\ (pc[Main] = "join_reader") ~> (pc[Main] = "close")

\* disconnect() has returned from its join and both workers, signalled, are
\* still in their loops.
C6_Witness ==
    /\ pc[Main] = "close"
    /\ ~is_running /\ ThreadAlive(Engine)
    /\ stop_event /\ ThreadAlive(Reader)

(***************************************************************************)
(* C7.  When the raw records were pushed with non-decreasing timestamps,   *)
(* the feature buffer is sorted by source timestamp.                       *)
(***************************************************************************)
C7_SnapshotsMonotonic ==
    SortedByTimestamp(pushed) => SortedByTimestamp(processed_buffer)

\* Snapshots of two different records are in the feature buffer.
C7_Witness ==
    /\ Len(processed_buffer) >= 2
    /\ processed_buffer[1].frame < processed_buffer[Len(processed_buffer)].frame
    /\ SortedByTimestamp(pushed)

(***************************************************************************)
(* C8.  No stale reads: each snapshot in the feature buffer comes from a   *)
(* record strictly newer than the record of the snapshot before it.        *)
(***************************************************************************)
C8_NoStaleReads ==
    \A i \in 1..(Len(processed_buffer) - 1) :
        processed_buffer[i].frame < processed_buffer[i + 1].frame

(***************************************************************************)
(* C9.  While the raw buffer holds fewer than 2 records the worker only    *)
(* checks, idles and retries: it is at no statement past the check, no     *)
(* snapshot has been pushed and samples_processed is unchanged.            *)
(***************************************************************************)
C9_NeedsTwoRecords ==
    Len(raw_buffer) < 2 =>
        /\ pc[Engine] \in {"unstarted", "top", "check", "idle", "done"}
        /\ processed_buffer = <<>>
        /\ samples_processed = 0

\* The worker idles with one record in the raw buffer.
C9_Witness ==
    /\ pc[Engine] = "idle"
    /\ Len(raw_buffer) = 1

(***************************************************************************)
(* C10.  A worker cycle leaves the raw buffer as it is; the window handed  *)
(* to the analyzers is a copy of consecutive records ending with the       *)
(* current record; only add_data's append changes the raw buffer.          *)
(***************************************************************************)
C10_HistoryReadOnly ==
    /\ [](pc[Engine] = "compute" =>
            /\ Len(recent_data) >= 1
            /\ Last(recent_data) = raw_data
            /\ \A i \in 1..Len(recent_data) :
                  recent_data[i] = pushed[raw_data.frame - Len(recent_data) + i])
    /\ [][pc'[Engine] # pc[Engine] => raw_buffer' = raw_buffer]_vars
    /\ [][raw_buffer' # raw_buffer =>
            pc[Reader] = "append" /\ pc'[Reader] = "top"]_vars

\* The worker computes from its window after the reader has pushed a newer
\* record, which the window does not show.
C10_Witness ==
    /\ pc[Engine] = "compute"
    /\ Len(recent_data) = AnalysisWindow
    /\ Last(raw_buffer) # raw_data
    /\ Len(raw_buffer) > Len(recent_data)


(***************************************************************************)
(* The worker's cycle against the clock.  Time passes between any two      *)
(* statements (computation, waiting for the lock, preemption); a sleep     *)
(* returns no earlier than asked.  The device feeds records while the      *)
(* worker runs; the application has started the pipeline and is in its     *)
(* render loop.                                                            *)
(***************************************************************************)
\* The remainder of the budget without the max: negative after a long cycle.
SleepDurationSigned(cost) == CycleBudget - cost

\* max(0, 0.01 - processing_time)
SleepDuration(cost) == Max(0, CycleBudget - cost)

TimedInit ==
    /\ \E n \in 1..2 :
          /\ pushed = [i \in 1..n |-> RawAudioData(i, i)]
          /\ raw_buffer = LastItems(pushed, Min(n, BufferSize))
    /\ processed_buffer = <<>>
    /\ lock = Free
    /\ is_running = TRUE
    /\ samples_processed = 0
    /\ raw_data = None
    /\ recent_data = <<>>
    /\ processed_data = None
    /\ is_connected = TRUE
    /\ is_reading = TRUE
    /\ stop_event = FALSE
    /\ serial_connection = TRUE
    /\ audio_data = None
    /\ pc = [t \in Threads |-> IF t = Main THEN "loop" ELSE "top"]
    /\ TimeInit
    /\ GetterInit
    /\ CodecInit
    /\ StatisticsInit
    /\ LifecycleInit
    /\ AnalyzerInit
    /\ ReportInit
    /\ AlternateInit

\* What the timed actions leave alone.
TimedUnchanged == <<lock, is_running, raw_data, recent_data, processed_data,
                    ReaderVars, GetterVars, CodecVars, LifecycleVars, AnalyzerVars, ReportVars, AlternateVars, StatisticsVars>>

\* The clock advances.
Tick ==
    /\ now < MaxTime
    /\ now' = now + 1
    /\ UNCHANGED <<BufferVars, samples_processed, pc, start_time,
                   processing_time, wake_at, push_times, TimedUnchanged>>

\* The reader hands a record to add_data (the lock is not modelled here: the
\* time spent waiting for it is time that passes; nor is the time stamped
\* on the record, which the worker's pacing does not read).
TimedAddData ==
    /\ Len(pushed) < MaxFrames
    /\ LET record == RawAudioData(Len(pushed) + 1, Len(pushed) + 1)
       IN  /\ raw_buffer' = AppendRaw(raw_buffer, record)
           /\ pushed' = Append(pushed, record)
    /\ UNCHANGED <<processed_buffer, samples_processed, pc, TimeVars,
                   TimedUnchanged>>

\* while self.is_running: if len(self.raw_buffer) < 2: time.sleep(0.001);
\* continue (a nap shorter than a tick); else start_time = time.time()
TimedLoopTop ==
    /\ pc[Engine] = "top"
    /\ is_running
    /\ samples_processed < MaxCycles
    /\ IF TooFewRaw(raw_buffer)
       THEN /\ wake_at' = now
            /\ Goto(Engine, "sleeping")
            /\ UNCHANGED start_time
       ELSE /\ start_time' = now
            /\ Goto(Engine, "work")
            /\ UNCHANGED wake_at
    /\ UNCHANGED <<BufferVars, samples_processed, now, processing_time,
                   push_times, TimedUnchanged>>

\* Lines 131-142: the window is read, the snapshot computed and pushed; or
\* the cycle raises and the handler sleeps 0.1 s.
TimedWork ==
    /\ pc[Engine] = "work"
    /\ \/ /\ processed_buffer' =
                PublishSnapshot(processed_buffer,
                    ProcessAudioData(Last(raw_buffer), HistoryWindow(raw_buffer)))
          /\ push_times' = Append(push_times, now)
          /\ Goto(Engine, "measure")
          /\ UNCHANGED wake_at
       \/ /\ wake_at' = now + ErrorBackoff
          /\ Goto(Engine, "sleeping")
          /\ UNCHANGED <<processed_buffer, push_times>>
    /\ UNCHANGED <<raw_buffer, pushed, samples_processed, now, start_time,
                   processing_time, TimedUnchanged>>

\* processing_time = time.time() - start_time; self.samples_processed += 1
TimedMeasure ==
    /\ pc[Engine] = "measure"
    /\ processing_time' = now - start_time
    /\ samples_processed' = samples_processed + 1
    /\ Goto(Engine, "sleep")
    /\ UNCHANGED <<BufferVars, now, start_time, wake_at, push_times,
                   TimedUnchanged>>

\* time.sleep(max(0, 0.01 - processing_time)) is called.
TimedSleep ==
    /\ pc[Engine] = "sleep"
    /\ wake_at' = now + SleepDuration(processing_time)
    /\ Goto(Engine, "sleeping")
    /\ UNCHANGED <<BufferVars, samples_processed, now, start_time,
                   processing_time, push_times, TimedUnchanged>>

\* time.sleep returns: not before the time asked for.
TimedWake ==
    /\ pc[Engine] = "sleeping"
    /\ now >= wake_at
    /\ Goto(Engine, "top")
    /\ UNCHANGED <<BufferVars, samples_processed, TimeVars, TimedUnchanged>>

TimedNext ==
    \/ Tick
    \/ TimedAddData
    \/ TimedLoopTop
    \/ TimedWork
    \/ TimedMeasure
    \/ TimedSleep
    \/ TimedWake

TimedSpec == TimedInit /\ [][TimedNext]_vars

(***************************************************************************)
(* C11 (as stated).  Two consecutive snapshots are pushed at least the     *)
(* cycle budget (10 ms) apart.                                             *)
(***************************************************************************)
C11_PushesBudgetApart ==
    \A i \in 1..(Len(push_times) - 1) :
        push_times[i + 1] - push_times[i] >= CycleBudget

(***************************************************************************)
(* C11 (amended).  Every producing cycle sleeps max(0, budget - measured   *)
(* cost), never a negative duration; two consecutive cycles that reach the *)
(* analysis start at least the budget apart; hence pushes i and j > i are  *)
(* at least (j - i - 1) budgets apart: the long-run rate is at most one    *)
(* snapshot per budget, while two consecutive pushes may be closer.        *)
(***************************************************************************)
C11_RateCeiling ==
    /\ [][(pc[Engine] = "sleep" /\ pc'[Engine] = "sleeping") =>
            /\ wake_at' - now >= 0
            /\ wake_at' - now = IF processing_time < CycleBudget
                                THEN CycleBudget - processing_time ELSE 0]_vars
    /\ [][(start_time >= 0 /\ start_time' # start_time) =>
            start_time' - start_time >= CycleBudget]_vars
    /\ [](\A i, j \in 1..Len(push_times) :
            i < j => push_times[j] - push_times[i] >= (j - i - 1) * CycleBudget)

\* A cycle that cost the whole budget slept for no time, and the next push
\* came less than a budget after the last one.
C11_Witness ==
    /\ Len(push_times) >= 2
    /\ push_times[2] - push_times[1] < CycleBudget
    /\ processing_time >= CycleBudget


(***************************************************************************)
(* The consumer's getters.  The pipeline as above, with the getter the     *)
(* consumer calls and the value it returns made explicit: the call takes   *)
(* the lock (MainAcquire), runs its body and returns to the render loop,   *)
(* which uses the value and drops it.                                      *)
(***************************************************************************)
\* The values of samples the consumer passes.
SampleCounts == 0..(BufferSize + 1)

\* The oldest snapshot in the buffer is returned.
GetCurrentAnalysisOldest(buf) == IF buf # <<>> THEN buf[1] ELSE None

\* if self.processed_buffer: return self.processed_buffer[-1]; return None
GetCurrentAnalysis(buf) == IF buf # <<>> THEN Last(buf) ELSE None

\* return list(self.processed_buffer)[-samples:]
GetRecentAnalysis(buf, samples) == TailSlice(buf, samples)

\* get_current_analysis: the body of "with self.lock" and the return.
MainGetCurrentAnalysis ==
    /\ pc[Main] = "read_processed"
    /\ result' = [call |-> "get_current_analysis",
                  value |-> GetCurrentAnalysis(processed_buffer)]
    /\ Release(Main)
    /\ Goto(Main, "returned")
    /\ UNCHANGED <<BufferVars, EngineVars, ReaderVars, TimeVars, CodecVars, LifecycleVars, AnalyzerVars, ReportVars, AlternateVars,
                   StatisticsVars>>

\* get_recent_analysis(samples): the body of "with self.lock" and the return.
MainGetRecentAnalysis ==
    /\ pc[Main] = "read_processed"
    /\ \E samples \in SampleCounts :
          result' = [call |-> "get_recent_analysis", samples |-> samples,
                     value |-> GetRecentAnalysis(processed_buffer, samples)]
    /\ Release(Main)
    /\ Goto(Main, "returned")
    /\ UNCHANGED <<BufferVars, EngineVars, ReaderVars, TimeVars, CodecVars, LifecycleVars, AnalyzerVars, ReportVars, AlternateVars,
                   StatisticsVars>>

\* The render loop has used the value.
MainReturn ==
    /\ pc[Main] = "returned"
    /\ result' = None
    /\ Goto(Main, "loop")
    /\ UNCHANGED <<BufferVars, lock, EngineVars, ReaderVars, TimeVars,
                   CodecVars, LifecycleVars, AnalyzerVars, ReportVars, AlternateVars, StatisticsVars>>

GetterMainStep ==
    \/ MainConnect
    \/ MainStart
    \/ MainStartReading
    \/ MainGetCurrentAnalysis
    \/ MainGetRecentAnalysis
    \/ MainReturn
    \/ MainStatistics
    \/ MainStop
    \/ MainJoinEngine
    \/ MainDisconnect
    \/ MainJoinReader
    \/ MainClose

GetterNext ==
    \/ EngineStep
    \/ EngineAcquire
    \/ ReaderStep
    \/ ReaderAcquire
    \/ GetterMainStep
    \/ MainLoop
    \/ MainAcquire

GetterSpec == Init /\ [][GetterNext]_vars

\* The consumer's call of getter f returns in this step.
Returns(f) ==
    /\ pc[Main] = "read_processed"
    /\ pc'[Main] = "returned"
    /\ result'.call = f

(***************************************************************************)
(* C12.  get_current_analysis returns the most recently pushed snapshot    *)
(* (every push puts its snapshot at the end of the feature buffer, and the *)
(* call returns the item at the end), or None when nothing was pushed; it  *)
(* leaves the feature buffer unchanged; and once it holds the lock it      *)
(* returns whatever the buffer holds, without waiting for data.            *)
(***************************************************************************)
C12_CurrentIsLatest ==
    /\ [][processed_buffer' # processed_buffer =>
            processed_buffer'[Len(processed_buffer')] = processed_data]_vars
    /\ [][Returns("get_current_analysis") =>
            /\ result'.value = IF processed_buffer = <<>>
                               THEN None
                               ELSE processed_buffer[Len(processed_buffer)]
            /\ processed_buffer' = processed_buffer]_vars
    /\ [](pc[Main] = "read_processed" => ENABLED MainGetCurrentAnalysis)

\* The call returned the newer of two different snapshots.
C12_Witness ==
    /\ pc[Main] = "returned"
    /\ result.call = "get_current_analysis"
    /\ Len(processed_buffer) = 2
    /\ processed_buffer[1].frame < processed_buffer[2].frame
    /\ result.value = processed_buffer[2]

(***************************************************************************)
(* C13.  get_recent_analysis(n) returns, in push order, the last n         *)
(* snapshots of the feature buffer, or all of them when fewer than n are   *)
(* buffered: for every n >= 0, n = 0 included, exactly min(n, size)        *)
(* snapshots.                                                              *)
(***************************************************************************)
C13_RecentIsTail ==
    [][Returns("get_recent_analysis") =>
        LET size == Min(result'.samples, Len(processed_buffer))
        IN  /\ Len(result'.value) = size
            /\ result'.value = LastItems(processed_buffer, size)]_vars


(***************************************************************************)
(* RawAudioData.from_string.  A line is a sequence of tokens: the          *)
(* separators "," and ":", whitespace, and words (runs of other            *)
(* characters).  Numbers are fractions num/den.                            *)
(***************************************************************************)
Whitespace == {"\n", " "}

\* float(word) for the words that are float literals; float raises
\* ValueError for every other text.
FloatLiteral ==
    [w \in {"0", "1", "64", "128", "256", "440", "512", "-512", "1.5"} |->
        CASE w = "0" -> [num |-> 0, den |-> 1]
          [] w = "1" -> [num |-> 1, den |-> 1]
          [] w = "64" -> [num |-> 64, den |-> 1]
          [] w = "128" -> [num |-> 128, den |-> 1]
          [] w = "256" -> [num |-> 256, den |-> 1]
          [] w = "440" -> [num |-> 440, den |-> 1]
          [] w = "512" -> [num |-> 512, den |-> 1]
          [] w = "-512" -> [num |-> 0 - 512, den |-> 1]
          [] w = "1.5" -> [num |-> 3, den |-> 2]]

\* int(word) accepts the integer literals only: int("1.5") raises ValueError.
IntLiteral == {w \in DOMAIN FloatLiteral : FloatLiteral[w].den = 1}

Contains(s, x) == \E i \in 1..Len(s) : s[i] = x

\* s.index(x), 1-based
IndexOf(s, x) == CHOOSE i \in 1..Len(s) : s[i] = x /\ \A j \in 1..(i - 1) : s[j] # x

\* s.strip()
RECURSIVE Strip(_)
Strip(s) ==
    IF s = <<>> THEN s
    ELSE IF s[1] \in Whitespace THEN Strip(Tail(s))
    ELSE IF s[Len(s)] \in Whitespace THEN Strip(SubSeq(s, 1, Len(s) - 1))
    ELSE s

\* s.split(sep): the empty line gives one empty part.
RECURSIVE Split(_, _)
Split(s, sep) ==
    IF ~Contains(s, sep) THEN <<s>>
    ELSE LET i == IndexOf(s, sep)
         IN  <<SubSeq(s, 1, i - 1)>> \o Split(SubSeq(s, i + 1, Len(s)), sep)

\* sep.join(parts)
RECURSIVE Join(_, _)
Join(parts, sep) ==
    IF parts = <<>> THEN <<>>
    ELSE IF Len(parts) = 1 THEN parts[1]
    ELSE parts[1] \o <<sep>> \o Join(Tail(parts), sep)

\* for part in parts: if ':' in part: key, value = part.split(':', 1);
\* data_dict[key] = value.  A later pair overwrites an earlier one.
RECURSIVE DataDict(_, _)
DataDict(parts, dict) ==
    IF parts = <<>> THEN dict
    ELSE LET part == parts[1]
         IN  IF Contains(part, ":")
             THEN LET i == IndexOf(part, ":")
                      key == SubSeq(part, 1, i - 1)
                      value == SubSeq(part, i + 1, Len(part))
                  IN  DataDict(Tail(parts),
                               [k \in DOMAIN dict \cup {key} |->
                                   IF k = key THEN value ELSE dict[k]])
             ELSE DataDict(Tail(parts), dict)

\* The outcome of a conversion: a value, or an exception raised.
Value(v) == [ok |-> TRUE, value |-> v]
Raise(exception) == [ok |-> FALSE, raised |-> exception]

\* float(text), int(text) for the text of a value
ToFloat(text) ==
    IF Len(text) = 1 /\ text[1] \in DOMAIN FloatLiteral
    THEN Value(FloatLiteral[text[1]])
    ELSE Raise("ValueError")

ToInt(text) ==
    IF Len(text) = 1 /\ text[1] \in IntLiteral
    THEN Value(FloatLiteral[text[1]].num)
    ELSE Raise("ValueError")

\* float(data_dict.get(key, default)), int(data_dict.get(key, default))
GetFloat(dict, key, default) ==
    IF <<key>> \in DOMAIN dict THEN ToFloat(dict[<<key>>])
    ELSE Value([num |-> default, den |-> 1])

GetInt(dict, key, default) ==
    IF <<key>> \in DOMAIN dict THEN ToInt(dict[<<key>>]) ELSE Value(default)

\* x / 1023.0: the scale of a 10-bit reading's largest value.
NormalizeFullScale(q) == [num |-> q.num, den |-> q.den * 1023]

\* x / 1024.0
Normalize(q) == [num |-> q.num, den |-> q.den * 1024]

\* except KeyError only
CaughtKeyError == {"KeyError"}

\* except (ValueError, KeyError)
Caught == {"ValueError", "KeyError"}

\* from_string(data_string) called at time timestamp: the record, None, or
\* the exception that escapes.
FromString(text, timestamp) ==
    LET parts == Split(Strip(text), ",")
        data_dict == DataDict(parts, <<>>)
        amplitude == GetFloat(data_dict, "AMP", 0)
        frequency_dominant == GetFloat(data_dict, "FREQ", 440)
        bass_level == GetFloat(data_dict, "BASS", 0)
        mid_level == GetFloat(data_dict, "MID", 0)
        treble_level == GetFloat(data_dict, "TREBLE", 0)
        beat_detected == GetInt(data_dict, "BEAT", 0)
        arguments == <<amplitude, frequency_dominant, bass_level, mid_level,
                       treble_level, beat_detected>>
    IN  IF \A i \in 1..Len(arguments) : arguments[i].ok
        THEN [amplitude |-> Normalize(amplitude.value),
              frequency_dominant |-> frequency_dominant.value,
              bass_level |-> Normalize(bass_level.value),
              mid_level |-> Normalize(mid_level.value),
              treble_level |-> Normalize(treble_level.value),
              beat_detected |-> beat_detected.value # 0,
              timestamp |-> timestamp]
        ELSE LET first == CHOOSE i \in 1..Len(arguments) :
                              /\ ~arguments[i].ok
                              /\ \A j \in 1..(i - 1) : arguments[j].ok
                 exception == arguments[first].raised
             IN  IF exception \in Caught THEN None ELSE Raise(exception)

(***************************************************************************)
(* The lines from_string is applied to.                                    *)
(***************************************************************************)
Keys == {"AMP", "FREQ", "BASS", "MID", "TREBLE", "BEAT"}
KeyWords == Keys \cup {"VOL"}
ValueWords == {"512", "0", "-512", "1.5", "abc"}

\* A part of a line: empty, a word, KEY:VALUE, or a pair with a piece
\* missing or a second colon.
Parts ==
    {<<>>, <<"garbage">>, <<"AMP", ":">>, <<":", "512">>,
     <<"AMP", ":", "512", ":", "0">>}
    \cup {<<k, ":", v>> : k \in KeyWords, v \in ValueWords}

\* The frame of the protocol's documentation.
ExampleLine ==
    <<"AMP", ":", "512", ",", "FREQ", ":", "440", ",", "BASS", ":", "256", ",",
      "MID", ":", "128", ",", "TREBLE", ":", "64", ",", "BEAT", ":", "1">>

\* Lines of up to MaxParts parts, as sent or with the line end still on.
Lines ==
    LET bare == {Join(parts, ",") :
                    parts \in UNION {[1..n -> Parts] : n \in 0..MaxParts}}
                \cup {ExampleLine}
    IN  bare \cup {text \o <<"\n">> : text \in bare}

ParserInit ==
    /\ PipelineInit
    /\ TimeInit
    /\ GetterInit
    /\ data_string \in Lines
    /\ parsed = Pending
    /\ StatisticsInit
    /\ LifecycleInit
    /\ AnalyzerInit
    /\ ReportInit
    /\ AlternateInit

ParserUnchanged == <<BufferVars, lock, EngineVars, ReaderVars, pc, TimeVars,
                     GetterVars, StatisticsVars, LifecycleVars, AnalyzerVars, ReportVars, AlternateVars>>

\* RawAudioData.from_string(data_string)
CallFromString ==
    /\ parsed = Pending
    /\ parsed' = FromString(data_string, now)
    /\ UNCHANGED <<data_string, ParserUnchanged>>

ParserNext == CallFromString

ParserSpec == ParserInit /\ [][ParserNext]_vars

\* from_string has returned a record.
IsRecord(r) == r # Pending /\ r # None /\ "amplitude" \in DOMAIN r

\* The fraction q equals num/den.
Equals(q, num, den) == q.num * den = num * q.den

\* The parts of the line as from_string sees them.
PartsOf(text) == Split(Strip(text), ",")

\* The part is KEY:VALUE with a known or unknown key and a numeric value.
NumericPair(part) ==
    /\ Len(part) = 3
    /\ part[1] \in KeyWords
    /\ part[2] = ":"
    /\ part[3] \in DOMAIN FloatLiteral

\* The same parts in another order.
Reordered(text) ==
    LET parts == PartsOf(text)
    IN  {Join([i \in 1..Len(parts) |-> parts[p[i]]], ",") :
            p \in Permutations(1..Len(parts))}

\* Record r has the fields the pairs of the line give: each of the six
\* keys sets its field, a key in no pair leaves the default.
FieldsFromPairs(text, r) ==
    LET parts == PartsOf(text)
        Has(key) == \E i \in 1..Len(parts) : parts[i][1] = key
        Scaled(q, key) ==
            /\ \A i \in 1..Len(parts) : parts[i][1] = key =>
                  LET v == FloatLiteral[parts[i][3]]
                  IN  Equals(q, v.num, v.den * 1024)
            /\ ~Has(key) => Equals(q, 0, 1)
    IN  /\ Scaled(r.amplitude, "AMP")
        /\ Scaled(r.bass_level, "BASS")
        /\ Scaled(r.mid_level, "MID")
        /\ Scaled(r.treble_level, "TREBLE")
        /\ \A i \in 1..Len(parts) : parts[i][1] = "FREQ" =>
              LET v == FloatLiteral[parts[i][3]]
              IN  Equals(r.frequency_dominant, v.num, v.den)
        /\ ~Has("FREQ") => Equals(r.frequency_dominant, 440, 1)
        /\ \A i \in 1..Len(parts) : parts[i][1] = "BEAT" =>
              (r.beat_detected <=> FloatLiteral[parts[i][3]].num # 0)
        /\ ~Has("BEAT") => ~r.beat_detected

(***************************************************************************)
(* C14 (as stated).  For every line of comma-separated KEY:VALUE pairs     *)
(* with numeric values from_string returns a record whose fields are the   *)
(* values of their keys (scaled by 1/1024 but for FREQ and BEAT), with     *)
(* the defaults for missing keys, and the record is the same for every     *)
(* order of the pairs.                                                     *)
(***************************************************************************)
C14_RecordOfPairs ==
    (parsed # Pending /\ \A i \in 1..Len(PartsOf(data_string)) :
                            NumericPair(PartsOf(data_string)[i])) =>
        /\ IsRecord(parsed)
        /\ FieldsFromPairs(data_string, parsed)
        /\ \A text \in Reordered(data_string) : FromString(text, now) = parsed

(***************************************************************************)
(* C14 (amended).  The same, for the lines in which no key occurs twice    *)
(* and the BEAT value, if any, is an integer literal.                      *)
(***************************************************************************)
C14_RecordOfDistinctPairs ==
    LET parts == PartsOf(data_string)
    IN  (/\ parsed # Pending
         /\ \A i \in 1..Len(parts) : NumericPair(parts[i])
         /\ \A i, j \in 1..Len(parts) : parts[i][1] = parts[j][1] => i = j
         /\ \A i \in 1..Len(parts) :
               parts[i][1] = "BEAT" => parts[i][3] \in IntLiteral) =>
            /\ IsRecord(parsed)
            /\ FieldsFromPairs(data_string, parsed)
            /\ \A text \in Reordered(data_string) : FromString(text, now) = parsed

\* The documented frame was parsed into the documented record.
C14_Witness ==
    /\ Strip(data_string) = ExampleLine
    /\ IsRecord(parsed)
    /\ Equals(parsed.amplitude, 1, 2)
    /\ Equals(parsed.frequency_dominant, 440, 1)
    /\ Equals(parsed.bass_level, 1, 4)
    /\ Equals(parsed.mid_level, 1, 8)
    /\ Equals(parsed.treble_level, 1, 16)
    /\ parsed.beat_detected


(***************************************************************************)
(* C15.  A malformed line yields the failure value None, never a record    *)
(* of defaults: the line "garbage", the empty line, and a line in which    *)
(* the value of one of the six keys is not numeric.                        *)
(***************************************************************************)
C15_MalformedYieldsNone ==
    LET parts == PartsOf(data_string)
    IN  parsed # Pending =>
            /\ Strip(data_string) = <<"garbage">> => parsed = None
            /\ Strip(data_string) = <<>> => parsed = None
            /\ (\E i \in 1..Len(parts) :
                    /\ Len(parts[i]) = 3
                    /\ parts[i][1] \in Keys
                    /\ parts[i][2] = ":"
                    /\ parts[i][3] \notin DOMAIN FloatLiteral) => parsed = None

(***************************************************************************)
(* C16.  from_string never raises: whatever the line, it returns a record  *)
(* or None, and no exception escapes.                                      *)
(***************************************************************************)
C16_NeverRaises ==
    parsed # Pending =>
        /\ parsed = None \/ IsRecord(parsed)
        /\ "raised" \notin DOMAIN parsed

\* float raised on the value of a pair and from_string returned None.
C16_Witness ==
    /\ data_string = <<"AMP", ":", "512", ",", "BEAT", ":", "abc">>
    /\ parsed = None

(***************************************************************************)
(* C17.  No record with a negative amplitude or band level is produced:    *)
(* for every line that parses, amplitude, bass, mid and treble are         *)
(* non-negative.                                                           *)
(***************************************************************************)
C17_NonNegative ==
    IsRecord(parsed) =>
        /\ parsed.amplitude.num >= 0 /\ parsed.amplitude.den > 0
        /\ parsed.bass_level.num >= 0 /\ parsed.bass_level.den > 0
        /\ parsed.mid_level.num >= 0 /\ parsed.mid_level.den > 0
        /\ parsed.treble_level.num >= 0 /\ parsed.treble_level.den > 0


(***************************************************************************)
(* CommunicationManager._read_loop with its statistics and its error       *)
(* count.  The manager is connected and reading; the sink is add_data; the *)
(* application may call disconnect() at any time.  The clock is positive   *)
(* (time.time()) and advances while the reader sleeps or waits for the     *)
(* serial port.                                                            *)
(***************************************************************************)
\* len(word) for the words of the lines read
WordLength ==
    [w \in {"AMP", "FREQ", "BASS", "MID", "TREBLE", "BEAT", "abc", "garbage",
            "1", "64", "128", "256", "440", "512"} |->
        CASE w \in {"1"} -> 1
          [] w \in {"64"} -> 2
          [] w \in {"AMP", "MID", "abc", "128", "256", "440", "512"} -> 3
          [] w \in {"FREQ", "BASS", "BEAT"} -> 4
          [] w = "TREBLE" -> 6
          [] w = "garbage" -> 7]

\* len(text): separators and whitespace are one character each.
RECURSIVE StrLen(_)
StrLen(text) ==
    IF text = <<>> THEN 0
    ELSE (IF text[1] \in DOMAIN WordLength THEN WordLength[text[1]] ELSE 1)
         + StrLen(Tail(text))

\* What readline() returns: the documented frame, a frame with a value that
\* is no number, a line of noise, a blank line.
ReaderLines ==
    {ExampleLine \o <<"\n">>, <<"AMP", ":", "abc", "\n">>, <<"garbage", "\n">>,
     <<"\n">>}

ReaderInit ==
    /\ raw_buffer = <<>>
    /\ processed_buffer = <<>>
    /\ lock = Free
    /\ is_running = FALSE
    /\ samples_processed = 0
    /\ raw_data = None
    /\ recent_data = <<>>
    /\ processed_data = None
    /\ is_connected = TRUE
    /\ is_reading = TRUE
    /\ stop_event = FALSE
    /\ serial_connection = TRUE
    /\ audio_data = None
    /\ pc = [t \in Threads |-> CASE t = Main -> "disconnect"
                                 [] t = Reader -> "top"
                                 [] t = Engine -> "unstarted"]
    /\ pushed = <<>>
    /\ now = 1
    /\ start_time = -1
    /\ processing_time = -1
    /\ wake_at = 0
    /\ push_times = <<>>
    /\ GetterInit
    /\ CodecInit
    /\ StatisticsInit
    /\ LifecycleInit
    /\ AnalyzerInit
    /\ ReportInit
    /\ AlternateInit

\* The packets the gap since the last packet is taken to have swallowed:
\* if self.last_packet_time > 0: time_diff = ...; if time_diff > 0.1:
\* expected_packets = int(time_diff / 0.02); if expected_packets > 2:
\* expected_packets - 1
LostInGap(current_time, last_time) ==
    LET time_diff == current_time - last_time
        expected_packets == time_diff \div PacketPeriod
    IN  IF last_time > 0 /\ time_diff > GapThreshold /\ expected_packets > 2
        THEN expected_packets - 1
        ELSE 0

\* A parse failure is taken for a transport error.
ReaderParseFailureCountsError ==
    /\ packets_lost' = packets_lost + 1
    /\ consecutive_errors' = consecutive_errors + 1
    /\ UNCHANGED <<packets_received, last_packet_time, audio_data>>
    /\ Goto(Reader, "top")

\* else: self.packets_lost += 1
ReaderParseFailure ==
    /\ packets_lost' = packets_lost + 1
    /\ UNCHANGED <<packets_received, last_packet_time, consecutive_errors,
                   audio_data>>
    /\ Goto(Reader, "top")

\* A reader that counts the record and keeps it to itself.
ForwardNothing(record) ==
    /\ audio_data' = None
    /\ Goto(Reader, "top")

\* if self.data_callback: self.data_callback(audio_data): the record is
\* handed to the sink, which is called in the reader's thread.
Forward(record) ==
    /\ audio_data' = record
    /\ Goto(Reader, "add_data")

\* The try block with data waiting: readline, the statistics, from_string,
\* and the branch on its result.  A blank line is dropped uncounted; a
\* record goes to the sink (add_data, the next statements of this thread).
ReaderReadLine ==
    /\ pc[Reader] = "poll"
    /\ serial_connection
    /\ packets_received + packets_lost < MaxPackets
    /\ \E text \in ReaderLines :
          /\ line' = text
          /\ IF Strip(text) = <<>>
             THEN /\ Goto(Reader, "top")
                  /\ UNCHANGED <<bytes_received, packets_received, packets_lost,
                                 last_packet_time, consecutive_errors,
                                 audio_data>>
             ELSE /\ bytes_received' = bytes_received + StrLen(text)
                  /\ LET current_time == now
                         record == FromString(text, now)
                     IN  IF record # None
                         THEN /\ packets_lost' = packets_lost
                                    + LostInGap(current_time, last_packet_time)
                              /\ last_packet_time' = current_time
                              /\ packets_received' = packets_received + 1
                              /\ consecutive_errors' = 0
                              /\ Forward(record)
                         ELSE ReaderParseFailure
    /\ UNCHANGED <<BufferVars, lock, EngineVars, is_connected, is_reading,
                   stop_event, serial_connection, TimeVars, GetterVars,
                   CodecVars, LifecycleVars, AnalyzerVars, ReportVars, AlternateVars>>

\* else: time.sleep(0.001): no data is waiting (or the port is gone).
ReaderNoData ==
    /\ pc[Reader] = "poll"
    /\ Goto(Reader, "sleep")
    /\ UNCHANGED <<BufferVars, lock, EngineVars, ReaderVars, DetailVars>>

\* The handler never breaks.
ReaderTransportErrorNoBreak ==
    /\ pc[Reader] = "poll"
    /\ consecutive_errors < max_consecutive_errors
    /\ consecutive_errors' = consecutive_errors + 1
    /\ Goto(Reader, "sleep")
    /\ UNCHANGED <<BufferVars, lock, EngineVars, ReaderVars, TimeVars,
                   GetterVars, CodecVars, LifecycleVars, AnalyzerVars, ReportVars, AlternateVars, line, bytes_received,
                   packets_received, packets_lost, last_packet_time>>

\* except serial.SerialException / except Exception: in_waiting or readline
\* raised.  consecutive_errors += 1; at max_consecutive_errors: break; else
\* time.sleep(0.1).
ReaderTransportError ==
    /\ pc[Reader] = "poll"
    /\ consecutive_errors' = consecutive_errors + 1
    /\ Goto(Reader, IF consecutive_errors' >= max_consecutive_errors
                    THEN "done" ELSE "sleep")
    /\ UNCHANGED <<BufferVars, lock, EngineVars, ReaderVars, TimeVars,
                   GetterVars, CodecVars, LifecycleVars, AnalyzerVars, ReportVars, AlternateVars, line, bytes_received,
                   packets_received, packets_lost, last_packet_time>>

\* Time passes while the reader sleeps: a packet period, or a stall longer
\* than the gap threshold.
ReaderClock ==
    /\ pc[Reader] = "sleep"
    /\ \E d \in {PacketPeriod, GapThreshold + PacketPeriod} :
          /\ now + d <= MaxReaderTime
          /\ now' = now + d
    /\ UNCHANGED <<BufferVars, lock, EngineVars, ReaderVars, pc, start_time,
                   processing_time, wake_at, push_times, GetterVars, CodecVars, LifecycleVars, AnalyzerVars, ReportVars, AlternateVars,
                   StatisticsVars>>

ReaderNext ==
    \/ ReaderLoopTop
    \/ ReaderReadLine
    \/ ReaderNoData
    \/ ReaderTransportError
    \/ ReaderAcquire
    \/ ReaderAppend
    \/ ReaderSleep
    \/ ReaderClock
    \/ MainDisconnect
    \/ MainJoinReader
    \/ MainClose

ReaderSpec == ReaderInit /\ [][ReaderNext]_vars

\* The reader handles a line that is not blank and does not parse.
HandlesParseFailure ==
    /\ pc[Reader] = "poll"
    /\ bytes_received' # bytes_received
    /\ Strip(line') # <<>>
    /\ FromString(line', now) = None

\* The reader has left its loop on its own: disconnect() was not called.
SelfTerminated ==
    /\ pc[Reader] = "done"
    /\ pc[Main] = "disconnect"

(***************************************************************************)
(* C18.  A line that is not blank and fails to parse increments            *)
(* packets_lost by exactly 1, leaves packets_received and last_packet_time *)
(* unchanged, is not handed to the sink, and the reader goes on with its   *)
(* loop: the failure is neither propagated nor counted as an error.        *)
(***************************************************************************)
C18_ParseFailureCounted ==
    [][HandlesParseFailure =>
        /\ packets_lost' = packets_lost + 1
        /\ packets_received' = packets_received
        /\ last_packet_time' = last_packet_time
        /\ audio_data' = None /\ raw_buffer' = raw_buffer /\ pushed' = pushed
        /\ pc'[Reader] = "top"
        /\ consecutive_errors' = consecutive_errors]_vars

\* A frame was received and forwarded, then a frame with a value that is no
\* number was counted as lost.
C18_Witness ==
    /\ line = <<"AMP", ":", "abc", "\n">>
    /\ pc[Reader] = "top"
    /\ packets_lost = 1
    /\ packets_received = 1
    /\ Len(pushed) = 1

(***************************************************************************)
(* C19.  When the error count reaches max_consecutive_errors (10) the      *)
(* reader leaves its loop in that very handler, without disconnect();      *)
(* a parsed packet resets the count to 0; the reader leaves its loop only  *)
(* at the threshold or after the loop condition was made false, so fewer   *)
(* than 10 errors never end it.                                            *)
(***************************************************************************)
C19_ThresholdTerminates ==
    /\ [][consecutive_errors' > consecutive_errors =>
            /\ consecutive_errors' = consecutive_errors + 1
            /\ (consecutive_errors' >= max_consecutive_errors
                    <=> pc'[Reader] = "done")]_vars
    /\ [][packets_received' # packets_received => consecutive_errors' = 0]_vars
    /\ [][(pc[Reader] # "done" /\ pc'[Reader] = "done") =>
            \/ consecutive_errors' = max_consecutive_errors
            \/ pc[Reader] = "top" /\ (stop_event \/ ~is_reading)]_vars
    /\ [](pc[Reader] # "done" => consecutive_errors < max_consecutive_errors)

\* A packet was received and the tenth error in a row ended the reader while
\* the application had not called disconnect().
C19_Witness ==
    /\ SelfTerminated
    /\ consecutive_errors = max_consecutive_errors
    /\ packets_received > 0
    /\ ~stop_event

(***************************************************************************)
(* C20.  After the reader has terminated itself because of repeated        *)
(* transport errors, the connection state is Disconnected: is_connected    *)
(* and is_reading are false.                                               *)
(***************************************************************************)
C20_SelfTerminatedDisconnected ==
    (pc[Reader] = "done" /\ consecutive_errors >= max_consecutive_errors) =>
        ~is_connected /\ ~is_reading

(***************************************************************************)
(* The connection manager under any sequence of calls of its interface:    *)
(* connect(), start_reading() and disconnect(), called by the application  *)
(* in any order, with the reader threads start_reading spawned running     *)
(* beside it.                                                              *)
(* communication_manager.py: connect, start_reading, disconnect            *)
(***************************************************************************)
Bool(b) == IF b THEN "True" ELSE "False"

Alive(threads) == {i \in 1..Len(threads) : threads[i] = "alive"}

ManagerInit ==
    /\ raw_buffer = <<>>
    /\ processed_buffer = <<>>
    /\ lock = Free
    /\ is_running = FALSE
    /\ samples_processed = 0
    /\ raw_data = None
    /\ recent_data = <<>>
    /\ processed_data = None
    /\ is_connected = FALSE
    /\ is_reading = FALSE
    /\ stop_event = FALSE
    /\ serial_connection = FALSE
    /\ audio_data = None
    /\ pc = [t \in Threads |-> IF t = Main THEN "loop" ELSE "unstarted"]
    /\ pushed = <<>>
    /\ TimeInit
    /\ GetterInit
    /\ CodecInit
    /\ StatisticsInit
    /\ LifecycleInit
    /\ AnalyzerInit
    /\ ReportInit
    /\ AlternateInit

\* What the manager's calls leave alone.
ManagerUnchanged == <<BufferVars, lock, EngineVars, audio_data, TimeVars,
                      GetterVars, CodecVars, AnalyzerVars, ReportVars, AlternateVars, process_threads>>

\* connect(), up to the self-test.  In auto mode no port is found; or
\* serial.Serial() raises; or the port opens and the flush raises; or the
\* port opens, is_connected is set and _test_communication() is entered.
ManagerConnect ==
    /\ pc[Main] = "loop"
    /\ \/ /\ returned' = Returned("connect", "False")
          /\ UNCHANGED <<is_connected, serial_connection, pc>>
       \/ /\ returned' = Returned("connect", "False")
          /\ serial_connection' = TRUE
          /\ UNCHANGED <<is_connected, pc>>
       \/ /\ serial_connection' = TRUE
          /\ is_connected' = TRUE
          /\ Goto(Main, "self_test")
          /\ UNCHANGED returned
    /\ UNCHANGED <<ManagerUnchanged, StatisticsVars, is_reading, stop_event,
                   test_packets, read_threads>>

\* return self._test_communication(): the frames parsed within the window
\* decide what connect() returns.
ManagerSelfTest ==
    /\ pc[Main] = "self_test"
    /\ \E n \in 0..MinTestPackets :
          /\ test_packets' = n
          /\ returned' = Returned("connect", Bool(n > 0))
    /\ Goto(Main, "loop")
    /\ UNCHANGED <<ManagerUnchanged, StatisticsVars, ReaderVars, read_threads>>

\* start_reading(callback)
ManagerStartReading ==
    /\ pc[Main] = "loop"
    /\ IF ~is_connected
       THEN /\ returned' = Returned("start_reading", "False")
            /\ UNCHANGED <<is_reading, stop_event, read_threads>>
       ELSE /\ Len(read_threads) < MaxReaders
            /\ is_reading' = TRUE
            /\ stop_event' = FALSE
            /\ read_threads' = Append(read_threads, "alive")
            /\ returned' = Returned("start_reading", "True")
    /\ UNCHANGED <<ManagerUnchanged, StatisticsVars, is_connected,
                   serial_connection, pc, test_packets>>

\* The application calls disconnect().
ManagerCallDisconnect ==
    /\ pc[Main] = "loop"
    /\ Goto(Main, "disconnect")
    /\ UNCHANGED <<ManagerUnchanged, StatisticsVars, ReaderVars, LifecycleVars>>

\* disconnect(): if self.is_reading: the flag is cleared, the event is set,
\* and self.read_thread, the thread spawned last, is joined if it is alive.
ManagerDisconnect ==
    /\ pc[Main] = "disconnect"
    /\ IF is_reading
       THEN /\ is_reading' = FALSE
            /\ stop_event' = TRUE
            /\ Goto(Main, IF Len(read_threads) \in Alive(read_threads)
                          THEN "join_reader" ELSE "close")
       ELSE /\ UNCHANGED <<is_reading, stop_event>>
            /\ Goto(Main, "close")
    /\ UNCHANGED <<ManagerUnchanged, StatisticsVars, is_connected,
                   serial_connection, LifecycleVars>>

\* self.read_thread.join(timeout=2.0): the thread has exited, or the
\* timeout expires with the thread still alive.
ManagerJoinReader ==
    /\ pc[Main] = "join_reader"
    /\ \/ Len(read_threads) \notin Alive(read_threads)
       \/ Len(read_threads) \in Alive(read_threads)
    /\ Goto(Main, "close")
    /\ UNCHANGED <<ManagerUnchanged, StatisticsVars, ReaderVars, LifecycleVars>>

\* The flag is left as it is.
ManagerCloseKeepsFlag ==
    /\ pc[Main] = "close"
    /\ serial_connection' = FALSE
    /\ returned' = Returned("disconnect", "None")
    /\ Goto(Main, "loop")
    /\ UNCHANGED <<ManagerUnchanged, StatisticsVars, is_connected, is_reading,
                   stop_event, test_packets, read_threads>>

\* disconnect(), after the join: if self.serial_connection: close(), an
\* exception of which is caught and logged; self.is_connected = False;
\* self.serial_connection = None; get_statistics() is read for the log.
ManagerClose ==
    /\ pc[Main] = "close"
    /\ serial_connection' = FALSE
    /\ is_connected' = FALSE
    /\ returned' = Returned("disconnect", "None")
    /\ Goto(Main, "loop")
    /\ UNCHANGED <<ManagerUnchanged, StatisticsVars, is_reading, stop_event,
                   test_packets, read_threads>>

\* A reader thread in _read_loop: an iteration that receives a packet.
ManagerReaderWork(i) ==
    /\ read_threads[i] = "alive"
    /\ ~stop_event /\ is_reading
    /\ serial_connection
    /\ packets_received < MaxPackets
    /\ packets_received' = packets_received + 1
    /\ UNCHANGED <<ManagerUnchanged, ReaderVars, pc, LifecycleVars, line,
                   consecutive_errors, bytes_received, packets_lost,
                   last_packet_time>>

\* A reader thread leaves _read_loop: the loop's condition is false, or
\* the errors in a row reached the threshold.
ManagerReaderExit(i) ==
    /\ read_threads[i] = "alive"
    /\ read_threads' = [read_threads EXCEPT ![i] = "done"]
    /\ UNCHANGED <<ManagerUnchanged, StatisticsVars, ReaderVars, pc, returned,
                   test_packets>>

ManagerNext ==
    \/ ManagerConnect
    \/ ManagerSelfTest
    \/ ManagerStartReading
    \/ ManagerCallDisconnect
    \/ ManagerDisconnect
    \/ ManagerJoinReader
    \/ ManagerClose
    \/ \E i \in 1..Len(read_threads) : ManagerReaderWork(i)
    \/ \E i \in 1..Len(read_threads) : ManagerReaderExit(i)

ManagerSpec == ManagerInit /\ [][ManagerNext]_vars

\* The manager is in the state disconnect() leaves it in.
Disconnected == ~is_connected /\ ~is_reading /\ ~serial_connection

\* A step of the application thread inside disconnect().
DisconnectStep ==
    /\ pc[Main] \in {"disconnect", "join_reader", "close"}
    /\ pc'[Main] # pc[Main]

\* What a call of the manager can change.
ManagerState == <<is_connected, is_reading, stop_event, serial_connection,
                  read_threads, StatisticsVars>>

(***************************************************************************)
(* C21.  disconnect() is idempotent: from any state it returns without     *)
(* raising, with is_connected false, is_reading false and no serial        *)
(* connection; called again in that state, no step of it changes the       *)
(* manager's state or a statistics counter.                                *)
(***************************************************************************)
C21_DisconnectIdempotent ==
    /\ [][(DisconnectStep /\ pc'[Main] = "loop") =>
            /\ returned' = Returned("disconnect", "None")
            /\ Disconnected']_vars
    /\ [][(DisconnectStep /\ Disconnected) => UNCHANGED ManagerState]_vars

\* disconnect() was called while reading, with packets received, and has
\* returned; it was called again and is past the test of is_reading.
C21_Witness ==
    /\ pc[Main] = "close"
    /\ returned = Returned("disconnect", "None")
    /\ Disconnected
    /\ stop_event
    /\ packets_received > 0
    /\ Len(read_threads) > 0

(***************************************************************************)
(* C23.  Connected is reached only through a successful self-test: when    *)
(* connect() has returned False, for whatever cause, is_connected is       *)
(* false, and a start_reading() that follows returns False and spawns no   *)
(* reader thread.                                                          *)
(***************************************************************************)
C23_ConnectedOnlyBySelfTest ==
    /\ [][(pc'[Main] = "loop" /\ returned' = Returned("connect", "False")) =>
            ~is_connected']_vars
    /\ [][(returned = Returned("connect", "False")
             /\ returned'.call = "start_reading") =>
            /\ returned'.value = "False"
            /\ read_threads' = read_threads]_vars

(***************************************************************************)
(* The self-test in detail: _test_communication reads lines for a window   *)
(* of 3 s, napping 0.1 s between reads, and counts the lines that parse.   *)
(* communication_manager.py: _test_communication                           *)
(***************************************************************************)
SelfTestInit ==
    /\ raw_buffer = <<>>
    /\ processed_buffer = <<>>
    /\ lock = Free
    /\ is_running = FALSE
    /\ samples_processed = 0
    /\ raw_data = None
    /\ recent_data = <<>>
    /\ processed_data = None
    /\ is_connected = TRUE
    /\ is_reading = FALSE
    /\ stop_event = FALSE
    /\ serial_connection = TRUE
    /\ audio_data = None
    /\ pc = [t \in Threads |-> IF t = Main THEN "self_test" ELSE "unstarted"]
    /\ pushed = <<>>
    /\ TimeInit
    /\ GetterInit
    /\ CodecInit
    /\ StatisticsInit
    /\ LifecycleInit
    /\ AnalyzerInit
    /\ ReportInit
    /\ AlternateInit

\* What the self-test leaves alone.
SelfTestUnchanged == <<BufferVars, lock, EngineVars, ReaderVars, GetterVars,
                       CodecVars, AnalyzerVars, ReportVars, AlternateVars, read_threads, process_threads,
                       processing_time, wake_at, push_times,
                       consecutive_errors, bytes_received, packets_received,
                       packets_lost, last_packet_time>>

\* The time a read that raises has taken.
ReadCosts == {0, 1}

\* start_time = time.time(); test_packets = 0
SelfTestEnter ==
    /\ pc[Main] = "self_test"
    /\ start_time' = now
    /\ test_packets' = 0
    /\ Goto(Main, "test_top")
    /\ UNCHANGED <<SelfTestUnchanged, now, line, returned>>

\* Success needs the full count of frames at the end of the window.
SelfTestLoopTopStrict ==
    /\ pc[Main] = "test_top"
    /\ IF now - start_time < TestWindow
       THEN /\ Goto(Main, "test_read")
            /\ UNCHANGED returned
       ELSE /\ returned' = Returned("_test_communication",
                                    Bool(test_packets >= MinTestPackets))
            /\ Goto(Main, "loop")
    /\ UNCHANGED <<SelfTestUnchanged, now, start_time, line, test_packets>>

\* while time.time() - start_time < 3.0: ...; after the loop:
\* if test_packets > 0: return True; else: return False
SelfTestLoopTop ==
    /\ pc[Main] = "test_top"
    /\ IF now - start_time < TestWindow
       THEN /\ Goto(Main, "test_read")
            /\ UNCHANGED returned
       ELSE /\ returned' = Returned("_test_communication",
                                    Bool(test_packets > 0))
            /\ Goto(Main, "loop")
    /\ UNCHANGED <<SelfTestUnchanged, now, start_time, line, test_packets>>

\* The try block: with data waiting a line is read, and a line that is not
\* blank and parses is counted; the fifth one ends the test.  With no data
\* waiting nothing is read.
SelfTestRead ==
    /\ pc[Main] = "test_read"
    /\ \/ /\ UNCHANGED <<line, test_packets, returned>>
          /\ Goto(Main, "test_sleep")
       \/ \E text \in ReaderLines :
             /\ line' = text
             /\ IF Strip(text) # <<>> /\ FromString(text, now) # None
                THEN /\ test_packets' = test_packets + 1
                     /\ IF test_packets' >= MinTestPackets
                        THEN /\ returned' =
                                    Returned("_test_communication", "True")
                             /\ Goto(Main, "loop")
                        ELSE /\ Goto(Main, "test_sleep")
                             /\ UNCHANGED returned
                ELSE /\ UNCHANGED <<test_packets, returned>>
                     /\ Goto(Main, "test_sleep")
    /\ UNCHANGED <<SelfTestUnchanged, now, start_time>>

\* except Exception: the warning is logged; continue, without the nap.
SelfTestReadError ==
    /\ pc[Main] = "test_read"
    /\ \E cost \in ReadCosts : now' = now + cost
    /\ Goto(Main, "test_top")
    /\ UNCHANGED <<SelfTestUnchanged, start_time, line, test_packets, returned>>

\* time.sleep(0.1)
SelfTestSleep ==
    /\ pc[Main] = "test_sleep"
    /\ now' = now + TestNap
    /\ Goto(Main, "test_top")
    /\ UNCHANGED <<SelfTestUnchanged, start_time, line, test_packets, returned>>

SelfTestNext ==
    \/ SelfTestEnter
    \/ SelfTestLoopTop
    \/ SelfTestRead
    \/ SelfTestReadError
    \/ SelfTestSleep

SelfTestSpec == SelfTestInit /\ [][SelfTestNext]_vars

\* The self-test returns in this step.
SelfTestReturns == pc[Main] # "loop" /\ pc'[Main] = "loop"

\* The window is over.
WindowOver == now - start_time >= TestWindow

(***************************************************************************)
(* C22.  The outcome of the self-test depends only on the number of frames *)
(* parsed within the window: it returns True in the very step that parses  *)
(* the 5th frame, returns True when the window ends with 1 to 4 frames     *)
(* parsed, and returns False when the window ends with none; it returns in *)
(* no other way, so a read error does not end it, and an error changes     *)
(* neither the count nor the outcome.                                      *)
(***************************************************************************)
C22_SelfTestOutcome ==
    /\ [][test_packets' = MinTestPackets =>
            /\ SelfTestReturns
            /\ returned' = Returned("_test_communication", "True")]_vars
    /\ [][(SelfTestReturns /\ test_packets' < MinTestPackets) =>
            /\ WindowOver
            /\ test_packets' = test_packets
            /\ returned' = Returned("_test_communication",
                                    Bool(test_packets > 0))]_vars
    /\ [][(pc[Main] = "test_read" /\ pc'[Main] = "test_top") =>
            UNCHANGED <<test_packets, returned>>]_vars
    /\ [][test_packets' # test_packets =>
            \/ test_packets' = 0
            \/ /\ test_packets' = test_packets + 1
               /\ Strip(line') # <<>>
               /\ FromString(line', now) # None]_vars

\* The window has ended with three frames parsed and the test has returned
\* True.
C22_Witness ==
    /\ pc[Main] = "loop"
    /\ WindowOver
    /\ test_packets = 3
    /\ returned = Returned("_test_communication", "True")

(***************************************************************************)
(* C24.  If connect() fails the pipeline does not start: initialize_system *)
(* returns failure, so run() is in its cleanup and neither the engine's    *)
(* worker thread nor the reader thread is ever started; and run() still    *)
(* performs the cleanup, which stops the engine and disconnects the link.  *)
(***************************************************************************)
C24_FailedConnectStartsNothing ==
    /\ [](returned = Returned("connect", "False") =>
            /\ pc[Main] \in {"stop", "join_engine", "disconnect",
                             "join_reader", "close", "done"}
            /\ pc[Engine] = "unstarted" /\ pc[Reader] = "unstarted"
            /\ ~is_running /\ ~is_reading)
    /\ returned = Returned("connect", "False") ~>
            /\ pc[Main] = "done"
            /\ ~is_running /\ ~is_connected /\ ~serial_connection

\* The port opened and the self-test failed: the cleanup is at the close of
\* the link, and no thread was started.
C24_Witness ==
    /\ returned = Returned("connect", "False")
    /\ pc[Main] = "close"
    /\ is_connected /\ serial_connection
    /\ pc[Engine] = "unstarted" /\ pc[Reader] = "unstarted"

(***************************************************************************)
(* The engine under any sequence of start() and stop() calls, with every   *)
(* worker thread start() spawned running _processing_loop beside the       *)
(* application.                                                            *)
(* audio_processor.py: start, stop, _processing_loop                       *)
(***************************************************************************)
RestartInit ==
    /\ raw_buffer = <<>>
    /\ processed_buffer = <<>>
    /\ lock = Free
    /\ is_running = FALSE
    /\ samples_processed = 0
    /\ raw_data = None
    /\ recent_data = <<>>
    /\ processed_data = None
    /\ is_connected = FALSE
    /\ is_reading = FALSE
    /\ stop_event = FALSE
    /\ serial_connection = FALSE
    /\ audio_data = None
    /\ pc = [t \in Threads |-> IF t = Main THEN "loop" ELSE "unstarted"]
    /\ pushed = <<>>
    /\ TimeInit
    /\ GetterInit
    /\ CodecInit
    /\ StatisticsInit
    /\ LifecycleInit
    /\ AnalyzerInit
    /\ ReportInit
    /\ AlternateInit

\* What start(), stop() and the loop's control leave alone.
RestartUnchanged == <<BufferVars, lock, raw_data, recent_data, processed_data,
                      ReaderVars, TimeVars, GetterVars, CodecVars,
                      StatisticsVars, AnalyzerVars, ReportVars, AlternateVars, test_packets,
                      read_threads>>

\* The application calls start() or stop().
RestartCall ==
    /\ pc[Main] = "loop"
    /\ \/ Goto(Main, "start")
       \/ Goto(Main, "stop")
    /\ UNCHANGED <<RestartUnchanged, is_running, samples_processed,
                   process_threads, returned>>

\* start(): if self.is_running: return; else the flag is set and a new
\* worker thread is created and started.
RestartStart ==
    /\ pc[Main] = "start"
    /\ IF is_running
       THEN UNCHANGED <<is_running, process_threads>>
       ELSE /\ Len(process_threads) < MaxWorkers
            /\ is_running' = TRUE
            /\ process_threads' = Append(process_threads, "top")
    /\ returned' = Returned("start", "None")
    /\ Goto(Main, "loop")
    /\ UNCHANGED <<RestartUnchanged, samples_processed>>

\* stop(): self.is_running = False; if self.process_thread: the join.
RestartStop ==
    /\ pc[Main] = "stop"
    /\ is_running' = FALSE
    /\ Goto(Main, IF process_threads # <<>> THEN "join_engine" ELSE "loop")
    /\ returned' = IF process_threads # <<>> THEN returned
                   ELSE Returned("stop", "None")
    /\ UNCHANGED <<RestartUnchanged, samples_processed, process_threads>>

\* self.process_thread.join(timeout=2.0): the thread spawned last has
\* exited, or the timeout expires with it still alive; stop() returns.
RestartJoin ==
    /\ pc[Main] = "join_engine"
    /\ \/ Last(process_threads) = "done"
       \/ Last(process_threads) # "done"
    /\ returned' = Returned("stop", "None")
    /\ Goto(Main, "loop")
    /\ UNCHANGED <<RestartUnchanged, is_running, samples_processed,
                   process_threads>>

\* _processing_loop of worker i: while self.is_running:
WorkerLoopTop(i) ==
    /\ process_threads[i] = "top"
    /\ process_threads' = [process_threads EXCEPT
                              ![i] = IF is_running THEN "cycle" ELSE "done"]
    /\ UNCHANGED <<RestartUnchanged, is_running, samples_processed, pc,
                   returned>>

\* The body of the loop of worker i: a cycle of the analysis, which works
\* on the histories and the analyzers, or an idle sleep.
WorkerCycle(i) ==
    /\ process_threads[i] = "cycle"
    /\ \/ /\ samples_processed < MaxCycles
          /\ samples_processed' = samples_processed + 1
       \/ UNCHANGED samples_processed
    /\ process_threads' = [process_threads EXCEPT ![i] = "top"]
    /\ UNCHANGED <<RestartUnchanged, is_running, pc, returned>>

RestartNext ==
    \/ RestartCall
    \/ RestartStart
    \/ RestartStop
    \/ RestartJoin
    \/ \E i \in 1..Len(process_threads) : WorkerLoopTop(i)
    \/ \E i \in 1..Len(process_threads) : WorkerCycle(i)

RestartSpec == RestartInit /\ [][RestartNext]_vars

\* The workers inside the body of the processing loop.
InLoop(threads) == {i \in 1..Len(threads) : threads[i] = "cycle"}

(***************************************************************************)
(* C25.  Over any sequence of start() and stop() calls at most one engine  *)
(* worker thread executes the processing loop at any time, and start()     *)
(* called while the engine is running spawns no thread.                    *)
(***************************************************************************)
C25_SingleWorker ==
    /\ [](Cardinality(InLoop(process_threads)) <= 1)
    /\ [][(pc[Main] = "start" /\ pc'[Main] = "loop" /\ is_running)
            => process_threads' = process_threads]_vars

(***************************************************************************)
(* The tempo tracker: each cycle _analyze_rhythm records the timestamp of  *)
(* a record with a beat and asks calculate_tempo for the tempo of the      *)
(* beats recorded so far.  Times are in ticks of 5 ms, tempi are exact     *)
(* fractions of beats per minute.                                          *)
(* audio_processor.py: _analyze_rhythm, TempoTracker                       *)
(***************************************************************************)
RECURSIVE GCD(_, _)
GCD(a, b) == IF b = 0 THEN a ELSE GCD(b, a % b)

\* The fraction num/den in lowest terms (den > 0, num >= 0).
Fraction(num, den) ==
    LET g == GCD(num, den) IN [num |-> num \div g, den |-> den \div g]

Zero == [num |-> 0, den |-> 1]

\* a < b for fractions with positive denominators
Less(a, b) == a.num * b.den < b.num * a.den

RECURSIVE Sum(_)
Sum(s) == IF s = <<>> THEN 0 ELSE s[1] + Sum(Tail(s))

\* np.diff(beat_times)
Diff(beat_times) ==
    [i \in 1..(Len(beat_times) - 1) |-> beat_times[i + 1] - beat_times[i]]

\* A filter that lets the intervals of exactly 0.3 s and 3 s through.
ValidIntervalsInclusive(intervals) ==
    SelectSeq(intervals, LAMBDA x : x >= MinInterval /\ x <= MaxInterval)

\* Only the intervals of 3 s and more are dropped.
ValidIntervalsPositive(intervals) ==
    SelectSeq(intervals, LAMBDA x : x > 0 /\ x < MaxInterval)

\* intervals[(intervals > 0.3) & (intervals < 3.0)]
ValidIntervals(intervals) ==
    SelectSeq(intervals, LAMBDA x : x > MinInterval /\ x < MaxInterval)

\* np.mean(valid_intervals), of a list that is not empty
Mean(intervals) == Fraction(Sum(intervals), Len(intervals))

\* 60.0 * avg_interval
BpmTimesInterval(avg_interval) ==
    Fraction(avg_interval.num, Minute * avg_interval.den)

\* bpm = 60.0 / avg_interval
Bpm(avg_interval) == Fraction(Minute * avg_interval.den, avg_interval.num)

\* np.median(values), of a list that is not empty: the middle value of the
\* sorted list, or the mean of the two middle values.
Median(values) ==
    LET sorted == SortSeq(values, Less)
        n == Len(values)
    IN  IF n % 2 = 1 THEN sorted[(n + 1) \div 2]
        ELSE LET a == sorted[n \div 2]
                 b == sorted[n \div 2 + 1]
             IN  Fraction(a.num * b.den + b.num * a.den, 2 * a.den * b.den)

\* What a call leaves in tempo_history and what it returns.
Tempo(history, bpm) == [tempo_history |-> history, bpm |-> bpm]

\* A call that finds no tempo records a tempo of 0.
CalculateTempoRecordsZero(beat_times, history) ==
    IF Len(beat_times) < 2
    THEN Tempo(DequeAppend(history, Zero, TempoHistoryLen), Zero)
    ELSE LET intervals == Diff(beat_times)
             valid_intervals == ValidIntervals(intervals)
         IN  IF Len(valid_intervals) = 0
             THEN Tempo(DequeAppend(history, Zero, TempoHistoryLen), Zero)
             ELSE LET bpm == Bpm(Mean(valid_intervals))
                      appended == DequeAppend(history, bpm, TempoHistoryLen)
                  IN  Tempo(appended, Median(appended))

\* TempoTracker.calculate_tempo(beat_times), with self.tempo_history = history
CalculateTempo(beat_times, history) ==
    IF Len(beat_times) < 2
    THEN Tempo(history, Zero)
    ELSE LET intervals == Diff(beat_times)
             valid_intervals == ValidIntervals(intervals)
         IN  IF Len(valid_intervals) = 0
             THEN Tempo(history, Zero)
             ELSE LET bpm == Bpm(Mean(valid_intervals))
                      appended == DequeAppend(history, bpm, TempoHistoryLen)
                  IN  Tempo(appended, Median(appended))

\* The time between the records of two cycles: none (the record is read
\* again), 0.05 s, 0.5 s, 1 s, 3 s.
Spacings == {0, 10, 100, 200, 600}

TempoInit ==
    /\ raw_buffer = <<>>
    /\ processed_buffer = <<>>
    /\ lock = Free
    /\ is_running = TRUE
    /\ samples_processed = 0
    /\ raw_data = None
    /\ recent_data = <<>>
    /\ processed_data = None
    /\ is_connected = FALSE
    /\ is_reading = FALSE
    /\ stop_event = FALSE
    /\ serial_connection = FALSE
    /\ audio_data = None
    /\ pc = [t \in Threads |-> CASE t = Main -> "loop"
                                 [] t = Reader -> "unstarted"
                                 [] t = Engine -> "top"]
    /\ pushed = <<>>
    /\ TimeInit
    /\ GetterInit
    /\ CodecInit
    /\ StatisticsInit
    /\ LifecycleInit
    /\ AnalyzerInit
    /\ ReportInit
    /\ AlternateInit

\* What the rhythm analysis leaves alone.
TempoUnchanged == <<BufferVars, lock, is_running, raw_data, recent_data,
                    processed_data, ReaderVars, pc, start_time,
                    processing_time, wake_at, push_times, GetterVars,
                    CodecVars, StatisticsVars, LifecycleVars,
                    amplitude_history, envelope_state, peak_amplitude,
                    attack_start, release_start, ReportVars, AlternateVars>>

\* _analyze_rhythm(current, history) in a cycle of the worker, for a record
\* stamped spacing after the one of the cycle before: if
\* current.beat_detected: self.beat_history.append(current.timestamp);
\* tempo_bpm = self.tempo_tracker.calculate_tempo(list(self.beat_history))
AnalyzeRhythm ==
    /\ samples_processed < MaxTempoCalls
    /\ \E spacing \in Spacings, beat_detected \in BOOLEAN :
          LET timestamp == now + spacing
              beats == IF beat_detected
                       THEN DequeAppend(beat_history, timestamp,
                                        BeatHistoryLen)
                       ELSE beat_history
              tempo == CalculateTempo(beats, tempo_history)
          IN  /\ now' = timestamp
              /\ beat_history' = beats
              /\ tempo_history' = tempo.tempo_history
              /\ tempo_bpm' = tempo.bpm
    /\ samples_processed' = samples_processed + 1
    /\ UNCHANGED TempoUnchanged

TempoNext == AnalyzeRhythm

TempoSpec == TempoInit /\ [][TempoNext]_vars

\* The intervals between the beats recorded.
Intervals == Diff(beat_history)

\* The intervals that lie strictly between 0.3 s and 3.0 s.
InRange(intervals) ==
    {i \in 1..Len(intervals) : MinInterval < intervals[i]
                                /\ intervals[i] < MaxInterval}

(***************************************************************************)
(* C26.  calculate_tempo returns 0 when it is given fewer than 2 beat      *)
(* timestamps, and when no interval between beats lies inside the range    *)
(* of 0.3 s to 3.0 s; in both cases the smoothing history is unchanged.    *)
(***************************************************************************)
C26_NoTempoWithoutIntervals ==
    [][(samples_processed' # samples_processed
          /\ (Len(beat_history') < 2 \/ InRange(Diff(beat_history')) = {}))
        => /\ tempo_bpm' = Zero
           /\ tempo_history' = tempo_history]_vars

\* Three beats, 0.05 s and 3 s apart, were recorded; the call returned 0
\* and recorded no tempo.
C26_Witness ==
    /\ Intervals = <<10, 600>>
    /\ tempo_bpm = Zero
    /\ tempo_history = <<>>
    /\ samples_processed >= 3

\* At least two beats were recorded, each d after the one before.
ConstantSpacing(d) ==
    /\ Len(beat_history) >= 2
    /\ \A i \in 1..Len(Intervals) : Intervals[i] = d

(***************************************************************************)
(* C27.  Fed beats at a constant spacing d with 0.3 s < d < 3.0 s, every   *)
(* call of calculate_tempo with at least 2 beats returns 60/d BPM; for     *)
(* d = 0.5 s the result is 120 BPM after at least 4 beats and on every     *)
(* later call.                                                             *)
(***************************************************************************)
C27_ConstantSpacingTempo ==
    /\ \A d \in {Intervals[i] : i \in 1..Len(Intervals)} :
          (ConstantSpacing(d) /\ MinInterval < d /\ d < MaxInterval)
              => Equals(tempo_bpm, Minute, d)
    /\ (ConstantSpacing(100) /\ Len(beat_history) >= 4) =>
          tempo_bpm = [num |-> 120, den |-> 1]

\* Four beats 0.5 s apart were recorded, and a later cycle without a beat
\* asked for the tempo again: 120 BPM.
C27_Witness ==
    /\ Intervals = <<100, 100, 100>>
    /\ samples_processed = 5
    /\ Len(tempo_history) = 4
    /\ tempo_bpm = [num |-> 120, den |-> 1]

\* The sum of the intervals that lie in the range.
SumInRange(intervals) ==
    Sum([i \in 1..Len(intervals) |->
            IF i \in InRange(intervals) THEN intervals[i] ELSE 0])

\* Regular beats 0.5 s apart, but for one interval of 0.05 s.
OneOutlier ==
    /\ \A i \in 1..Len(Intervals) : Intervals[i] \in {10, 100}
    /\ Cardinality({i \in 1..Len(Intervals) : Intervals[i] = 10}) = 1
    /\ \E i \in 1..Len(Intervals) : Intervals[i] = 100

(***************************************************************************)
(* C28.  Intervals outside the range of 0.3 s to 3.0 s do not influence    *)
(* the tempo: the BPM a call computes and records is 60 divided by the     *)
(* mean of the intervals in the range only, so with one interval of        *)
(* 0.05 s among regular intervals of 0.5 s the result stays 120 BPM.       *)
(***************************************************************************)
C28_OutliersIgnored ==
    /\ [][(samples_processed' # samples_processed
             /\ InRange(Diff(beat_history')) # {})
            => /\ tempo_history' # <<>>
               /\ SubSeq(tempo_history', 1, Len(tempo_history') - 1)
                     = tempo_history
               /\ Equals(Last(tempo_history'),
                         Minute * Cardinality(InRange(Diff(beat_history'))),
                         SumInRange(Diff(beat_history')))]_vars
    /\ [](OneOutlier => tempo_bpm = [num |-> 120, den |-> 1])

\* Beats 0.5 s, 0.05 s and 0.5 s apart: the tempo is 120 BPM.
C28_Witness ==
    /\ Intervals = <<100, 10, 100>>
    /\ tempo_bpm = [num |-> 120, den |-> 1]
    /\ Len(tempo_history) = 3

(***************************************************************************)
(* The envelope analyzer: each cycle EnvelopeAnalyzer.analyze is given the *)
(* current record and the history that ends with it, and moves between     *)
(* attack, decay and release.  Amplitudes are exact fractions of the full  *)
(* scale, timestamps count the records.                                    *)
(* audio_processor.py: EnvelopeAnalyzer                                    *)
(***************************************************************************)
\* The factors of analyze: * 1.2, * 0.9, and the floor 0.1
AttackRatio == [num |-> 6, den |-> 5]
DecayRatio == [num |-> 9, den |-> 10]
ReleaseFloor == [num |-> 1, den |-> 10]

\* a * b for fractions
Times(a, b) == [num |-> a.num * b.num, den |-> a.den * b.den]

\* A record with the amplitude from_string gives a reading of raw counts.
Sample(raw, timestamp) ==
    [amplitude |-> Normalize([num |-> raw, den |-> 1]),
     timestamp |-> timestamp]

\* max(amplitudes), of a list that is not empty
MaxAmplitude(amplitudes) ==
    CHOOSE a \in {amplitudes[i] : i \in 1..Len(amplitudes)} :
        \A i \in 1..Len(amplitudes) : ~Less(a, amplitudes[i])

\* [d.amplitude for d in history[-10:]]
Amplitudes(history) ==
    LET window == TailSlice(history, EnvelopeWindow)
    IN  [i \in 1..Len(window) |-> window[i].amplitude]

\* current.amplitude > max(amplitudes[:-1]) * 1.2
NewPeak(current, history) ==
    LET amplitudes == Amplitudes(history)
    IN  Less(Times(MaxAmplitude(SubSeq(amplitudes, 1, Len(amplitudes) - 1)),
                   AttackRatio),
             current.amplitude)

\* The analyzer's fields.
Envelope(state, peak, attack, release) ==
    [envelope_state |-> state, peak_amplitude |-> peak,
     attack_start |-> attack, release_start |-> release]

\* The floor is tested before the decay.
AnalyzeFloorFirst(current, history, self) ==
    IF Len(history) >= EnvelopeWindow
    THEN IF NewPeak(current, history)
         THEN Envelope("attack", current.amplitude, current.timestamp,
                       self.release_start)
         ELSE IF Less(current.amplitude, ReleaseFloor)
         THEN IF self.envelope_state # "release"
              THEN Envelope("release", self.peak_amplitude,
                            self.attack_start, current.timestamp)
              ELSE self
         ELSE IF /\ self.envelope_state = "attack"
                 /\ Less(current.amplitude,
                         Times(self.peak_amplitude, DecayRatio))
         THEN Envelope("decay", self.peak_amplitude, self.attack_start,
                       self.release_start)
         ELSE self
    ELSE self

\* EnvelopeAnalyzer.analyze(current, history): the fields it leaves.  The
\* times it returns are estimates that no field depends on (AttackTime).
Analyze(current, history, self) ==
    IF Len(history) >= EnvelopeWindow
    THEN IF NewPeak(current, history)
         THEN Envelope("attack", current.amplitude, current.timestamp,
                       self.release_start)
         ELSE IF /\ self.envelope_state = "attack"
                 /\ Less(current.amplitude,
                         Times(self.peak_amplitude, DecayRatio))
         THEN Envelope("decay", self.peak_amplitude, self.attack_start,
                       self.release_start)
         ELSE IF Less(current.amplitude, ReleaseFloor)
         THEN IF self.envelope_state # "release"
              THEN Envelope("release", self.peak_amplitude,
                            self.attack_start, current.timestamp)
              ELSE self
         ELSE self
    ELSE self

\* current.amplitude * 0.9 in the estimate of the attack time
AttackSampleRatio == [num |-> 9, den |-> 10]

\* len([a for a in amplitudes if a < current.amplitude * 0.9])
AttackSamples(current, amplitudes) ==
    Cardinality({i \in 1..Len(amplitudes) :
                    Less(amplitudes[i],
                         Times(current.amplitude, AttackSampleRatio))})

\* An estimate that starts one sample late: times[-1] - times[-attack_samples]
AttackTimeOffByOne(current, history) ==
    IF Len(history) >= EnvelopeWindow /\ NewPeak(current, history)
    THEN LET window == TailSlice(history, EnvelopeWindow)
             attack_samples == AttackSamples(current, Amplitudes(history))
         IN  IF Len(window) > attack_samples /\ attack_samples > 0
             THEN window[Len(window)].timestamp
                  - window[Len(window) - attack_samples + 1].timestamp
             ELSE 0
    ELSE 0

\* The attack_time that analyze(current, history) returns: 0.0 unless the
\* cycle takes the attack branch, and there, if len(times) > attack_samples,
\* times[-1] - times[-(attack_samples + 1)]
AttackTime(current, history) ==
    IF Len(history) >= EnvelopeWindow /\ NewPeak(current, history)
    THEN LET window == TailSlice(history, EnvelopeWindow)
             attack_samples == AttackSamples(current, Amplitudes(history))
         IN  IF Len(window) > attack_samples
             THEN window[Len(window)].timestamp
                  - window[Len(window) - attack_samples].timestamp
             ELSE 0
    ELSE 0

\* The readings of the device: about 0.01, 0.047, 0.05, 0.4, 0.44 and 0.5
\* of the full scale.
Levels == {10, 48, 51, 410, 450, 512}

\* A steady signal of n records at one level.
Steady(level, n) == [i \in 1..n |-> Sample(level, i)]

\* The analyzer after nine records of a steady signal: with fewer than ten
\* records analyze changes no field.
EnvelopeInit ==
    /\ raw_buffer = <<>>
    /\ processed_buffer = <<>>
    /\ lock = Free
    /\ is_running = TRUE
    /\ samples_processed = 0
    /\ raw_data = None
    /\ recent_data = <<>>
    /\ processed_data = None
    /\ is_connected = FALSE
    /\ is_reading = FALSE
    /\ stop_event = FALSE
    /\ serial_connection = FALSE
    /\ audio_data = None
    /\ pc = [t \in Threads |-> CASE t = Main -> "loop"
                                 [] t = Reader -> "unstarted"
                                 [] t = Engine -> "top"]
    /\ pushed = <<>>
    /\ now = EnvelopeWindow - 1
    /\ start_time = -1
    /\ processing_time = -1
    /\ wake_at = 0
    /\ push_times = <<>>
    /\ GetterInit
    /\ CodecInit
    /\ StatisticsInit
    /\ LifecycleInit
    /\ beat_history = <<>>
    /\ tempo_history = <<>>
    /\ tempo_bpm = Zero
    /\ \E level \in Levels :
          amplitude_history = Steady(level, EnvelopeWindow - 1)
    /\ envelope_state = "release"
    /\ peak_amplitude = Zero
    /\ attack_start = 0
    /\ release_start = 0
    /\ ReportInit
    /\ AlternateInit

\* What the envelope analysis leaves alone.
EnvelopeUnchanged == <<BufferVars, lock, EngineVars, ReaderVars, pc,
                       start_time, processing_time, wake_at, push_times,
                       GetterVars, CodecVars, StatisticsVars, LifecycleVars,
                       beat_history, tempo_history, tempo_bpm,
                       AlternateVars>>

\* _analyze_envelope(current, history) in a cycle of the worker, for the
\* next record of the device, which is the last one of its history.
AnalyzeEnvelope ==
    /\ Len(amplitude_history) < EnvelopeWindow - 1 + MaxSamples
    /\ \E raw \in Levels :
          LET current == Sample(raw, now + 1)
              history == Append(amplitude_history, current)
              self == Envelope(envelope_state, peak_amplitude, attack_start,
                               release_start)
              analyzed == Analyze(current, history, self)
          IN  /\ now' = current.timestamp
              /\ amplitude_history' = history
              /\ envelope_state' = analyzed.envelope_state
              /\ peak_amplitude' = analyzed.peak_amplitude
              /\ attack_start' = analyzed.attack_start
              /\ release_start' = analyzed.release_start
              /\ attack_time' = AttackTime(current, history)
    /\ UNCHANGED EnvelopeUnchanged

EnvelopeNext == AnalyzeEnvelope

EnvelopeSpec == EnvelopeInit /\ [][EnvelopeNext]_vars

\* The record of the cycle that has just been analyzed.
Current == Last(amplitude_history)

\* The readings since the steady signal, in raw counts.
Readings(history) ==
    [i \in 1..(Len(history) - (EnvelopeWindow - 1)) |->
        history[i + EnvelopeWindow - 1].amplitude.num]

\* The readings rise from the steady level to a single top and fall from
\* there on.
Ramp(history) ==
    LET readings == Readings(history)
        n == Len(readings)
    IN  \E top \in 1..n :
           /\ history[1].amplitude.num < readings[1]
           /\ \A i \in 1..(top - 1) : readings[i] < readings[i + 1]
           /\ \A i \in top..(n - 1) : readings[i] > readings[i + 1]

\* The ramp has come down to the steady level or below.
RampUpAndDown(history) ==
    /\ Ramp(history)
    /\ Last(history).amplitude.num <= history[1].amplitude.num

\* The state changes in this cycle from one state to another.
Enters(from, to) == envelope_state = from /\ envelope_state' = to

(***************************************************************************)
(* C29 as stated.  For an amplitude sequence that ramps up and then down   *)
(* the state goes to Attack, then Decay, then Release, in that order: a    *)
(* ramp that has come down is past an attack, and on a ramp Release is     *)
(* entered from Decay; over any sequence Decay is entered only from        *)
(* Attack, and the state changes from Release to Attack only on a cycle    *)
(* whose amplitude is a new peak.                                          *)
(***************************************************************************)
C29_AttackDecayRelease ==
    /\ [](RampUpAndDown(amplitude_history) => attack_start > 0)
    /\ [][(Ramp(amplitude_history') /\ envelope_state' = "release") =>
            envelope_state \in {"decay", "release"}]_vars
    /\ [][envelope_state' = "decay" =>
            envelope_state \in {"attack", "decay"}]_vars
    /\ [][Enters("release", "attack") =>
            NewPeak(Current', amplitude_history')]_vars

(***************************************************************************)
(* C29.  Over any input sequence: the state is Attack after every cycle    *)
(* whose amplitude is a new peak, and is entered on such cycles only;      *)
(* Decay is entered only from Attack, on a cycle whose amplitude is below  *)
(* 0.9 of the recorded peak; Release is entered only on a cycle whose      *)
(* amplitude is below the floor of 0.1, from Decay, or from Attack when    *)
(* the amplitude is still at 0.9 of the peak or more, which needs a peak   *)
(* below 0.112.  So after an attack with a peak of 0.112 or more the       *)
(* order is Attack, Decay, Release.                                        *)
(***************************************************************************)
C29_EnvelopeOrder ==
    /\ [][(now' # now /\ NewPeak(Current', amplitude_history')) =>
            /\ envelope_state' = "attack"
            /\ peak_amplitude' = Current'.amplitude]_vars
    /\ [][(envelope_state' = "attack" /\ envelope_state # "attack") =>
            NewPeak(Current', amplitude_history')]_vars
    /\ [][(envelope_state' = "decay" /\ envelope_state # "decay") =>
            /\ envelope_state = "attack"
            /\ Less(Current'.amplitude, Times(peak_amplitude, DecayRatio))]_vars
    /\ [][(envelope_state' = "release" /\ envelope_state # "release") =>
            /\ Less(Current'.amplitude, ReleaseFloor)
            /\ \/ envelope_state = "decay"
               \/ /\ envelope_state = "attack"
                  /\ ~Less(Current'.amplitude,
                           Times(peak_amplitude, DecayRatio))
                  /\ Less(Times(peak_amplitude, DecayRatio),
                          ReleaseFloor)]_vars
    /\ [][Enters("release", "attack") =>
            NewPeak(Current', amplitude_history')]_vars

\* A ramp from 0.01 up to 0.5 and down to 0.05 after a steady signal: the
\* attack was at the top, the release is two records later, after a decay.
C29_Witness ==
    /\ Readings(amplitude_history) = <<51, 410, 512, 410, 51>>
    /\ amplitude_history[1].amplitude.num = 10
    /\ envelope_state = "release"
    /\ attack_start = 12
    /\ release_start = 14
    /\ peak_amplitude = Sample(512, 12).amplitude

(***************************************************************************)
(* C30.  On every cycle with at least 10 samples of history in which the   *)
(* current amplitude is below the floor of 0.1 and the state is not        *)
(* Release, the state becomes Release in that cycle and release_start is   *)
(* set to the current timestamp.                                           *)
(***************************************************************************)
C30_FloorForcesRelease ==
    [][(now' # now
          /\ Len(amplitude_history') >= EnvelopeWindow
          /\ Less(Current'.amplitude, ReleaseFloor)
          /\ envelope_state # "release")
        => /\ envelope_state' = "release"
           /\ release_start' = Current'.timestamp]_vars


\* ---------------------------------------------------------------------------
\* The dominant frequencies of a spectrum (preprocessing/fourier.py).
\* Magnitudes and the threshold are exact fractions; frequencies are whole
\* hertz.
\* ---------------------------------------------------------------------------

\* The longest spectrum of a call.
MaxBins == 3

\* np.max(magnitudes)
MaxMagnitude(mags) ==
    LET values == {mags[i] : i \in 1..Len(mags)}
    IN CHOOSE x \in values : \A y \in values : ~Less(x, y)

\* A comparison that lets a magnitude equal to the bound through.
WhereAtLeast(mags, bound) ==
    {i \in 1..Len(mags) : ~Less(mags[i], bound)}

\* np.where(magnitudes > bound)[0]: the indices, which numpy lists in
\* increasing order.
Where(mags, bound) ==
    {i \in 1..Len(mags) : Less(bound, mags[i])}

\* freqs[indices].tolist(): the elements at the indices, by increasing index.
RECURSIVE TakeIndices(_, _, _)
TakeIndices(fs, indices, i) ==
    IF i > Len(fs) THEN <<>>
    ELSE IF i \in indices
         THEN <<fs[i]>> \o TakeIndices(fs, indices, i + 1)
         ELSE TakeIndices(fs, indices, i + 1)

\* get_dominant_frequencies(freqs, magnitudes, threshold)
GetDominantFrequencies(fs, mags, t) ==
    LET max_magnitude == MaxMagnitude(mags)
        indices == Where(mags, Times(t, max_magnitude))
    IN TakeIndices(fs, indices, 1)

\* The inputs of the calls: the frequencies, the magnitudes in hundredths
\* (those of tests/test_fourier.py and a silent bin), and thresholds that
\* include the default of 0.01, the 0.5 of the test, and the two ends.
Frequencies == {100, 200, 300}
Magnitudes == {Fraction(n, 100) : n \in {0, 5, 10, 60, 70}}
Thresholds == {Fraction(0, 1), Fraction(1, 100), Fraction(1, 2),
               Fraction(1, 1)}

\* A caller about to call the function on a spectrum of one value per
\* frequency.
FourierInit ==
    /\ PipelineInit
    /\ TimeInit
    /\ GetterInit
    /\ CodecInit
    /\ StatisticsInit
    /\ LifecycleInit
    /\ AnalyzerInit
    /\ ReportInit
    /\ \E n \in 1..MaxBins :
          /\ freqs \in [1..n -> Frequencies]
          /\ magnitudes \in [1..n -> Magnitudes]
    /\ threshold \in Thresholds
    /\ consecutive_silence_blocks = 0
    /\ last_audio_energy = 0
    /\ last_silence_state = FALSE
    /\ sent = <<>>

\* The call and its return.
CallGetDominantFrequencies ==
    /\ returned.call = "__init__"
    /\ returned' = Returned("get_dominant_frequencies",
                            GetDominantFrequencies(freqs, magnitudes,
                                                   threshold))
    /\ UNCHANGED <<BufferVars, lock, EngineVars, ReaderVars, pc, TimeVars,
                   GetterVars, CodecVars, StatisticsVars, test_packets,
                   read_threads, process_threads, AnalyzerVars, ReportVars,
                   AlternateVars>>

FourierNext == CallGetDominantFrequencies

FourierSpec == FourierInit /\ [][FourierNext]_vars

\* The indices whose magnitude is strictly greater than threshold times the
\* maximum magnitude.
Above ==
    {i \in 1..Len(magnitudes) :
        \E m \in 1..Len(magnitudes) :
            /\ \A k \in 1..Len(magnitudes) :
                  ~Less(magnitudes[m], magnitudes[k])
            /\ Less(Times(threshold, magnitudes[m]), magnitudes[i])}

\* The index of the n-th of them, in input order.
NthAbove(n) ==
    CHOOSE i \in Above : Cardinality({k \in Above : k < i}) = n - 1

\* C31: get_dominant_frequencies returns exactly the frequencies whose
\* magnitude is strictly greater than threshold times the maximum magnitude,
\* in input order, and no other frequency.
C31_DominantFrequencies ==
    returned.call = "get_dominant_frequencies" =>
        /\ Len(returned.value) = Cardinality(Above)
        /\ \A n \in 1..Len(returned.value) :
              returned.value[n] = freqs[NthAbove(n)]

\* The spectrum of the test without its last bin, at threshold 0.5: 0.6 is the
\* maximum, and only its frequency is returned, 0.1 and 0.05 being below 0.3.
C31_Witness ==
    /\ freqs = <<100, 200, 300>>
    /\ magnitudes = <<Fraction(10, 100), Fraction(60, 100), Fraction(5, 100)>>
    /\ threshold = Fraction(1, 2)
    /\ returned = Returned("get_dominant_frequencies", <<200>>)


\* ---------------------------------------------------------------------------
\* A cycle of the worker whose snapshot computation raises.
\* ---------------------------------------------------------------------------

\* The positions of the application after it has called stop().
AfterStop == {"join_engine", "disconnect", "join_reader", "close", "done"}

\* C32: if computing a snapshot raises inside an engine cycle, the worker
\* does not terminate: no snapshot is pushed for that cycle, samples_processed
\* is unchanged, the mutex is not left held, and the loop keeps running (it
\* gets back to its test, and ends only there, with the flag cleared by
\* stop()).
C32_ErrorKeepsWorker ==
    /\ [][pc[Engine] = "compute" /\ pc'[Engine] = "error_sleep" =>
             /\ processed_buffer' = processed_buffer
             /\ samples_processed' = samples_processed
             /\ lock' # Engine]_vars
    /\ [][pc[Engine] = "error_sleep" =>
             /\ processed_buffer' = processed_buffer
             /\ samples_processed' = samples_processed
             /\ lock' # Engine
             /\ pc'[Engine] \in {"error_sleep", "top"}]_vars
    /\ [][pc[Engine] # "done" /\ pc'[Engine] = "done" =>
             /\ pc[Engine] = "top"
             /\ ~is_running
             /\ pc[Main] \in AfterStop]_vars
    /\ (pc[Engine] = "error_sleep" ~> pc[Engine] = "top")

\* The computation of the second cycle has raised: the worker is in its
\* except clause with the first snapshot counted, the flag set and the lock
\* not in its hands.
C32_Witness ==
    /\ pc[Engine] = "error_sleep"
    /\ is_running
    /\ samples_processed = 1
    /\ Len(processed_buffer) = 1
    /\ lock # Engine


\* ---------------------------------------------------------------------------
\* The rolling histories of the analyzers over a long run and a restart.
\* ---------------------------------------------------------------------------

\* The cycles of the run after its long beginning.
MaxHistoryCalls == 3

\* The timestamps of the beats of a long beginning: a burst of beats 0.05 s
\* apart, which give no valid interval, and then beats 0.5 s apart, one short
\* of filling the beat history.
LongRun(n) ==
    LET burst == BeatHistoryLen - TempoHistoryLen
    IN  [i \in 1..n |-> IF i <= burst THEN 10 * i
                        ELSE 10 * burst + 100 * (i - burst)]

\* What the tempo tracker holds after the long beginning: nothing for the
\* burst, whose intervals are all filtered out, and from the first beat 0.5 s
\* after its predecessor one value per beat, each of them 60 / 0.5, the only
\* valid intervals of the list being those of 0.5 s.
LongRunTempo(n) ==
    [i \in 1..(n - (BeatHistoryLen - TempoHistoryLen)) |->
        Bpm(Mean(ValidIntervals(Diff(LongRun(n)))))]

\* The engine running, after the long beginning.
HistoryInit ==
    /\ raw_buffer = <<>>
    /\ processed_buffer = <<>>
    /\ lock = Free
    /\ is_running = TRUE
    /\ samples_processed = 0
    /\ raw_data = None
    /\ recent_data = <<>>
    /\ processed_data = None
    /\ is_connected = FALSE
    /\ is_reading = FALSE
    /\ stop_event = FALSE
    /\ serial_connection = FALSE
    /\ audio_data = None
    /\ pc = [t \in Threads |-> CASE t = Main -> "loop"
                                 [] t = Reader -> "unstarted"
                                 [] t = Engine -> "top"]
    /\ pushed = <<>>
    /\ start_time = -1
    /\ processing_time = -1
    /\ wake_at = 0
    /\ push_times = <<>>
    /\ GetterInit
    /\ CodecInit
    /\ StatisticsInit
    /\ LifecycleInit
    /\ LET times == LongRun(BeatHistoryLen - 1)
           tempos == LongRunTempo(BeatHistoryLen - 1)
       IN  /\ now = times[Len(times)]
           /\ beat_history = times
           /\ tempo_history = tempos
           /\ tempo_bpm = Median(tempos)
    /\ amplitude_history = <<>>
    /\ envelope_state = "release"
    /\ peak_amplitude = Zero
    /\ attack_start = 0
    /\ release_start = 0
    /\ ReportInit
    /\ AlternateInit

\* What neither the rhythm analysis nor start() and stop() touch.
HistoryUnchanged == <<BufferVars, lock, raw_data, recent_data, processed_data,
                      ReaderVars, start_time, processing_time, wake_at,
                      push_times, GetterVars, CodecVars, StatisticsVars,
                      test_packets, read_threads, process_threads,
                      amplitude_history, envelope_state, peak_amplitude,
                      attack_start, release_start, ReportVars, AlternateVars>>

\* A cycle of the running worker: _analyze_rhythm on a record stamped spacing
\* after the one of the cycle before (0: the same record again).
HistoryCycle ==
    /\ is_running
    /\ pc[Engine] = "top"
    /\ samples_processed < MaxHistoryCalls
    /\ \E spacing \in {0, 100, 200}, beat_detected \in BOOLEAN :
          LET timestamp == now + spacing
              beats == IF beat_detected
                       THEN DequeAppend(beat_history, timestamp,
                                        BeatHistoryLen)
                       ELSE beat_history
              tempo == CalculateTempo(beats, tempo_history)
          IN  /\ now' = timestamp
              /\ beat_history' = beats
              /\ tempo_history' = tempo.tempo_history
              /\ tempo_bpm' = tempo.bpm
    /\ samples_processed' = samples_processed + 1
    /\ UNCHANGED <<HistoryUnchanged, is_running, pc, returned>>

\* stop(): the flag is cleared and the worker, which is between two cycles,
\* is joined.
HistoryStop ==
    /\ is_running' = FALSE
    /\ pc' = [pc EXCEPT ![Engine] = IF pc[Engine] = "top" THEN "done" ELSE @]
    /\ returned' = Returned("stop", "None")
    /\ UNCHANGED <<HistoryUnchanged, samples_processed, now, beat_history,
                   tempo_history, tempo_bpm>>

\* A start() that builds its analyzers anew.
HistoryStartClears ==
    /\ IF is_running
       THEN UNCHANGED <<is_running, pc, beat_history, tempo_history>>
       ELSE /\ is_running' = TRUE
            /\ Goto(Engine, "top")
            /\ beat_history' = <<>>
            /\ tempo_history' = <<>>
    /\ returned' = Returned("start", "None")
    /\ UNCHANGED <<HistoryUnchanged, samples_processed, now, tempo_bpm>>

\* start(): if self.is_running: return; the flag is set and a worker
\* started; beat_history and the tempo tracker, built in __init__, are left
\* as they are.
HistoryStart ==
    /\ IF is_running
       THEN UNCHANGED <<is_running, pc>>
       ELSE /\ is_running' = TRUE
            /\ Goto(Engine, "top")
    /\ returned' = Returned("start", "None")
    /\ UNCHANGED <<HistoryUnchanged, samples_processed, now, beat_history,
                   tempo_history, tempo_bpm>>

HistoryNext ==
    \/ HistoryCycle
    \/ HistoryStop
    \/ HistoryStart

HistorySpec == HistoryInit /\ [][HistoryNext]_vars

\* A rolling history after a step: as before, or with one entry more at its
\* end, the oldest one dropped if it was full.
Rolled(old, new, maxlen) ==
    \/ new = old
    \/ /\ Len(old) < maxlen
       /\ Len(new) = Len(old) + 1
       /\ SubSeq(new, 1, Len(old)) = old
    \/ /\ Len(old) = maxlen
       /\ Len(new) = maxlen
       /\ SubSeq(new, 1, maxlen - 1) = Tail(old)

\* C33: the beat-timestamp history holds at most 100 entries and the BPM
\* smoothing history at most 20, the oldest being dropped first, and no
\* operation of the engine, stop() followed by start() included, clears them.
C33_HistoriesBoundedPersistent ==
    /\ [](Len(beat_history) <= BeatHistoryLen)
    /\ [](Len(tempo_history) <= TempoHistoryLen)
    /\ [][/\ Rolled(beat_history, beat_history', BeatHistoryLen)
          /\ Rolled(tempo_history, tempo_history', TempoHistoryLen)]_vars

\* After a stop() and a start() both histories are full and have dropped
\* their oldest entry: the first beat of the run, stamped 10, is gone.
C33_Witness ==
    /\ returned = Returned("start", "None")
    /\ is_running
    /\ samples_processed = MaxHistoryCalls
    /\ Len(beat_history) = BeatHistoryLen
    /\ beat_history[1] > 10
    /\ Len(tempo_history) = TempoHistoryLen


\* ---------------------------------------------------------------------------
\* The reader's forwarding and byte count.
\* ---------------------------------------------------------------------------

\* The reader is inside the sink's call with a record in hand.
Delivering == pc[Reader] \in {"add_data", "append"}

\* C34: each successfully parsed frame is forwarded to the sink exactly once,
\* in arrival order, and increments packets_received by exactly 1; with a sink
\* that does not raise, packets_received equals the number of records
\* delivered to the sink (the record in the sink's hands, if any, included).
C34_ForwardedOnce ==
    /\ [][pc[Reader] = "poll" /\ bytes_received' # bytes_received
          /\ FromString(line', now) # None =>
             /\ packets_received' = packets_received + 1
             /\ audio_data' = FromString(line', now)
             /\ pc'[Reader] = "add_data"]_vars
    /\ [][packets_received' # packets_received =>
             /\ packets_received' = packets_received + 1
             /\ pc[Reader] = "poll"
             /\ pc'[Reader] = "add_data"]_vars
    /\ [][pushed' # pushed =>
             /\ Delivering
             /\ audio_data # None
             /\ pushed' = Append(pushed, audio_data)
             /\ ~Delivering']_vars
    /\ [][Delivering => pc'[Reader] \in {"add_data", "append"}
                        \/ Len(pushed') = Len(pushed) + 1]_vars
    /\ [](packets_received = Len(pushed) + (IF Delivering THEN 1 ELSE 0))

\* Two frames have been parsed and both are with the sink, the reader back at
\* its loop test.
C34_Witness ==
    /\ packets_received = MaxPackets
    /\ Len(pushed) = MaxPackets
    /\ pc[Reader] = "top"
    /\ packets_lost = 0


\* C35: the byte count is updated on success only: bytes_received grows by
\* the length of a line only when that line was parsed successfully, and a
\* line that fails to parse changes no statistic other than packets_lost.
C35_BytesOnSuccessOnly ==
    [][/\ bytes_received' # bytes_received =>
             /\ FromString(line', now) # None
             /\ bytes_received' = bytes_received + StrLen(line')
       /\ pc[Reader] = "poll" /\ Strip(line') # <<>>
          /\ packets_lost' = packets_lost + 1
          /\ FromString(line', now) = None =>
             UNCHANGED <<bytes_received, packets_received,
                         last_packet_time>>]_vars


\* ---------------------------------------------------------------------------
\* The silence detection of the alternate topology (src/main.py).  Energies
\* are in hundredths, times in tenths of a second.
\* ---------------------------------------------------------------------------

\* SILENCE_THRESHOLD = 0.05
SILENCE_THRESHOLD == 5
\* SILENCE_TIME_THRESHOLD = 1.5
SILENCE_TIME_THRESHOLD == 15
\* ANALYSIS_INTERVAL = 0.1
ANALYSIS_INTERVAL == 1

\* The longest run of quiet blocks followed, and the most frames sent.
MaxSilence == 17
MaxSent == 5

\* The energies of the analysed blocks: nothing, quiet, just below the
\* threshold, at the threshold, loud.
Energies == {0, 2, 4, 5, 50}

\* What detect_silence leaves in its globals and returns.
Silence(blocks, energy, is_silent) ==
    [consecutive_silence_blocks |-> blocks, last_audio_energy |-> energy,
     is_silent |-> is_silent]

\* A detection that needs one block more than the threshold time.
DetectSilenceStrict(energy, blocks) ==
    LET counted == IF energy < SILENCE_THRESHOLD THEN blocks + 1 ELSE 0
        silence_blocks_needed == SILENCE_TIME_THRESHOLD \div ANALYSIS_INTERVAL
    IN  Silence(counted, energy, counted > silence_blocks_needed)

\* detect_silence(block), for a block of the given energy
DetectSilence(energy, blocks) ==
    LET counted == IF energy < SILENCE_THRESHOLD THEN blocks + 1 ELSE 0
        silence_blocks_needed == SILENCE_TIME_THRESHOLD \div ANALYSIS_INTERVAL
    IN  Silence(counted, energy, counted >= silence_blocks_needed)

\* send_silence_notification(is_silent): the frame written to the port
SendSilenceNotification(is_silent) ==
    IF is_silent THEN "SILENCE:1" ELSE "SILENCE:0"

\* real_time_visualization as it enters its loop, the rest of the program
\* as constructed.
SilenceInit == Init

\* An iteration of the loop of real_time_visualization with a full block in
\* the audio buffer: detect_silence, and the notification if the state has
\* changed.
AnalyseBlock ==
    /\ Len(sent) < MaxSent
    /\ \E energy \in Energies :
          LET detected == DetectSilence(energy, consecutive_silence_blocks)
              is_silent == detected.is_silent
          IN  /\ detected.consecutive_silence_blocks <= MaxSilence
              /\ consecutive_silence_blocks' =
                     detected.consecutive_silence_blocks
              /\ last_audio_energy' = detected.last_audio_energy
              /\ IF is_silent # last_silence_state
                 THEN /\ sent' = Append(sent,
                                        SendSilenceNotification(is_silent))
                      /\ last_silence_state' = is_silent
                 ELSE UNCHANGED <<sent, last_silence_state>>
    /\ UNCHANGED <<BufferVars, lock, EngineVars, ReaderVars, pc, TimeVars,
                   GetterVars, CodecVars, StatisticsVars, LifecycleVars,
                   AnalyzerVars, ReportVars, freqs, magnitudes, threshold>>

SilenceNext == AnalyseBlock

SilenceSpec == SilenceInit /\ [][SilenceNext]_vars

\* C36: SILENCE frames are sent only when the silence state changes: the
\* frames alternate strictly between SILENCE:1 and SILENCE:0, the first one
\* sent is SILENCE:1, SILENCE:1 is sent only after 15 consecutive analysed
\* blocks below the energy threshold, and a single block at or above the
\* threshold resets the count to 0.
C36_SilenceFrames ==
    /\ [](\A i \in 1..Len(sent) :
             sent[i] = IF i % 2 = 1 THEN "SILENCE:1" ELSE "SILENCE:0")
    /\ [][sent' # sent =>
             /\ Len(sent') = Len(sent) + 1
             /\ SubSeq(sent', 1, Len(sent)) = sent
             /\ last_silence_state' # last_silence_state]_vars
    /\ [][sent' # sent /\ sent'[Len(sent')] = "SILENCE:1" =>
             /\ consecutive_silence_blocks' = 15
             /\ last_audio_energy' < SILENCE_THRESHOLD]_vars
    /\ [][consecutive_silence_blocks' # consecutive_silence_blocks =>
             \/ /\ last_audio_energy' < SILENCE_THRESHOLD
                /\ consecutive_silence_blocks' =
                       consecutive_silence_blocks + 1
             \/ /\ last_audio_energy' >= SILENCE_THRESHOLD
                /\ consecutive_silence_blocks' = 0]_vars
    /\ [][last_audio_energy' >= SILENCE_THRESHOLD /\ <<AnalyseBlock>>_vars =>
             consecutive_silence_blocks' = 0]_vars

\* Silence, sound and silence again: three frames, the last one sent by the
\* fifteenth quiet block after a block exactly at the threshold.
C36_Witness ==
    /\ sent = <<"SILENCE:1", "SILENCE:0", "SILENCE:1">>
    /\ consecutive_silence_blocks = 15
    /\ last_silence_state


\* ---------------------------------------------------------------------------
\* The beat history fed by the worker's cycles, which take the newest record
\* of the raw buffer each time.
\* ---------------------------------------------------------------------------

\* The frames that arrive and the cycles the worker runs.
MaxBeatFrames == 3
MaxBeatCycles == 5

\* A record with its beat flag (RawAudioData.beat_detected).
BeatFrame(frame, timestamp, beat_detected) ==
    [frame |-> frame, timestamp |-> timestamp,
     beat_detected |-> beat_detected]

\* The engine running, nothing received.
BeatInit == TempoInit

\* What neither add_data nor the rhythm analysis touches.
BeatUnchanged == <<processed_buffer, lock, is_running, raw_data, recent_data,
                   processed_data, ReaderVars, pc, start_time,
                   processing_time, wake_at, push_times, GetterVars,
                   CodecVars, StatisticsVars, LifecycleVars,
                   amplitude_history, envelope_state, peak_amplitude,
                   attack_start, release_start, ReportVars, AlternateVars>>

\* add_data(raw_data) for the next frame of the device, stamped half a
\* second after the one before, with or without its beat flag.
BeatAddData ==
    /\ Len(pushed) < MaxBeatFrames
    /\ \E beat_detected \in BOOLEAN :
          LET record == BeatFrame(Len(pushed) + 1, now + 100, beat_detected)
          IN  /\ raw_buffer' = AppendRaw(raw_buffer, record)
              /\ pushed' = Append(pushed, record)
              /\ now' = record.timestamp
    /\ UNCHANGED <<BeatUnchanged, samples_processed, beat_history,
                   tempo_history, tempo_bpm>>

\* A cycle of _processing_loop with two records or more in the raw buffer:
\* raw_data = self.raw_buffer[-1], and _analyze_rhythm on it.
BeatCycle ==
    /\ is_running
    /\ ~TooFewRaw(raw_buffer)
    /\ samples_processed < MaxBeatCycles
    /\ LET current == raw_buffer[Len(raw_buffer)]
           beats == IF current.beat_detected
                    THEN DequeAppend(beat_history, current.timestamp,
                                     BeatHistoryLen)
                    ELSE beat_history
           tempo == CalculateTempo(beats, tempo_history)
       IN  /\ beat_history' = beats
           /\ tempo_history' = tempo.tempo_history
           /\ tempo_bpm' = tempo.bpm
    /\ samples_processed' = samples_processed + 1
    /\ UNCHANGED <<BeatUnchanged, raw_buffer, pushed, now>>

BeatNext ==
    \/ BeatAddData
    \/ BeatCycle

BeatSpec == BeatInit /\ [][BeatNext]_vars

\* C37: each received frame whose beat flag is set adds at most one timestamp
\* to the beat history, so the beat history never contains the same timestamp
\* twice, even when the engine runs more cycles than frames arrive.
C37_BeatOncePerFrame ==
    \A i, j \in 1..Len(beat_history) :
        i # j => beat_history[i] # beat_history[j]


\* C38: at most one reader thread is alive at any time: over any sequence of
\* connect(), start_reading() and disconnect() calls, start_reading() while
\* a reader thread is already running does not spawn a second reader on the
\* same link.
C38_SingleReader == Cardinality(Alive(read_threads)) <= 1


\* ---------------------------------------------------------------------------
\* The tempo tracker called directly, with any list of beat times.
\* ---------------------------------------------------------------------------

\* The calls made and the longest list passed.
MaxTrackerCalls == 2
MaxBeats == 3

\* The beat times of the lists: they give intervals of 0.3 s and 3 s exactly,
\* just above 0.3 s and just below 3 s, of 1 s, very short, too long, and,
\* lists being in any order, negative.
BeatTimes == {0, 60, 61, 260, 660}

\* The lists a caller can pass.
BeatLists == UNION {[1..n -> BeatTimes] : n \in 0..MaxBeats}

\* A tracker as constructed.
TrackerInit == TempoInit

\* calculate_tempo(beat_times), what it returns being kept in tempo_bpm
CallCalculateTempo ==
    /\ samples_processed < MaxTrackerCalls
    /\ \E beat_times \in BeatLists :
          LET tempo == CalculateTempo(beat_times, tempo_history)
          IN  /\ tempo_history' = tempo.tempo_history
              /\ tempo_bpm' = tempo.bpm
              /\ returned' = Returned("calculate_tempo", tempo.bpm)
    /\ samples_processed' = samples_processed + 1
    /\ UNCHANGED <<BufferVars, lock, is_running, raw_data, recent_data,
                   processed_data, ReaderVars, pc, TimeVars, GetterVars,
                   CodecVars, StatisticsVars, test_packets, read_threads,
                   process_threads, beat_history, amplitude_history,
                   envelope_state, peak_amplitude, attack_start,
                   release_start, ReportVars, AlternateVars>>

TrackerNext == CallCalculateTempo

TrackerSpec == TrackerInit /\ [][TrackerNext]_vars

\* C39: every value returned by calculate_tempo, for any sequence of calls
\* with any beat-timestamp lists, is either 0 or lies strictly between 20 and
\* 200 BPM.
C39_TempoInRange ==
    \/ tempo_bpm = Zero
    \/ /\ Less(Fraction(20, 1), tempo_bpm)
       /\ Less(tempo_bpm, Fraction(200, 1))

\* Two calls have recorded the tempi of intervals just above 0.3 s and just
\* below 3 s, and the second has returned their median, about 108 BPM.
C39_Witness ==
    /\ tempo_history = <<Bpm(Fraction(61, 1)), Bpm(Fraction(599, 1))>>
    /\ tempo_bpm = Median(tempo_history)
    /\ returned = Returned("calculate_tempo", tempo_bpm)
    /\ tempo_bpm # Zero


\* The cycle has set the state to Attack: it is Attack, begun at the
\* timestamp of the current sample.
EntersAttack == envelope_state' = "attack" /\ attack_start' = now'

\* The time span of the 10-sample window: the timestamp of the current
\* sample minus that of the sample 9 positions earlier.
WindowSpan(history) ==
    history[Len(history)].timestamp
        - history[Len(history) - (EnvelopeWindow - 1)].timestamp

\* C40: with non-negative amplitudes, on every cycle that enters Attack the
\* reported attack_time equals the time span of the whole 10-sample window,
\* whatever the shape of the amplitudes; on every cycle that does not enter
\* Attack the reported attack_time is 0.
C40_AttackTimeIsWindowSpan ==
    [][now' # now =>
          IF EntersAttack
          THEN attack_time' = WindowSpan(amplitude_history')
          ELSE attack_time' = 0]_vars

\* The fourth sample after the steady beginning enters Attack with a history
\* of 13 samples, and the reported attack time is the span of the last 10.
C40_Witness ==
    /\ Len(amplitude_history) = EnvelopeWindow + 3
    /\ envelope_state = "attack"
    /\ attack_start = now
    /\ attack_time = EnvelopeWindow - 1
    /\ \E i \in 1..Len(amplitude_history) - 1 :
          amplitude_history[i].amplitude # amplitude_history[1].amplitude

====
